---- MODULE Spec2Model ----
(***************************************************************************)
(* Model of the OCR bot's thread processing pipeline                       *)
(* (lib/process-thread.ts, lib/ocr.ts, lib/slack.ts and the ledger of      *)
(* lib/blob.ts).                                                           *)
(*                                                                         *)
(* Spec runs processThread invocations one after the other, SpecOverlap    *)
(* lets them overlap, SpecHandler starts them from the events handler of   *)
(* api/slack/events.ts, and SpecOcr calls the functions of lib/ocr.ts      *)
(* directly.                                                               *)
(*                                                                         *)
(* A text is a sequence of pieces.  A piece [t, n, a, whole] stands for n  *)
(* characters of kind t; a is the piece's argument (a file id, a count);   *)
(* whole is FALSE once slice() has cut the piece.                          *)
(***************************************************************************)
EXTENDS Integers, Sequences, FiniteSets, TLC

(* ------------------------------------------------------------------ *)
(* Bounds of the model                                                 *)
(* ------------------------------------------------------------------ *)

\* number of processThread invocations in one behaviour
MaxRuns == 2

\* invocation slots (concurrently live processThread calls)
NumJobs == 2

\* direct calls of performOCR before their results are rendered
MaxOcrCalls == 2

\* requests delivered to the events handler in one behaviour
MaxRequests == 3

(* ------------------------------------------------------------------ *)
(* Program constants                                                   *)
(* ------------------------------------------------------------------ *)

MAX_IMAGES == 50

SLACK_MAX_TEXT_LENGTH == 38000

\* "\n\n_Output was truncated because it exceeded Slack's message length limit._".length
TruncationNoticeLen == 74

\* the floor of the halving loop: response.length > 500
MinRetryLen == 500

\* processedEvents.size > 1000: the set of seen event ids is pruned
MaxSeenEvents == 1000

\* Array.from(processedEvents).slice(0, 500): the ids the pruning deletes
PrunedEvents == 500

(* ------------------------------------------------------------------ *)
(* Texts                                                               *)
(* ------------------------------------------------------------------ *)

Piece(t, n, a) == [t |-> t, n |-> n, a |-> a, whole |-> TRUE]

\* String(n).length for the numbers the model prints
DecLen(n) == IF n < 10 THEN 1 ELSE IF n < 100 THEN 2 ELSE IF n < 1000 THEN 3 ELSE 4

\* s.length (summed by halves: the recursion stays shallow)
RECURSIVE TextLen(_)
TextLen(s) ==
  IF Len(s) = 0 THEN 0
  ELSE IF Len(s) = 1 THEN s[1].n
  ELSE LET h == Len(s) \div 2
       IN TextLen(SubSeq(s, 1, h)) + TextLen(SubSeq(s, h + 1, Len(s)))

\* s.slice(0, k) for k >= 0: the pieces that fit whole, then the cut one
SliceText(s, k) ==
  LET fits == {m \in 0..Len(s) : TextLen(SubSeq(s, 1, m)) <= k}
      m == CHOOSE x \in fits : \A y \in fits : y <= x
      rest == k - TextLen(SubSeq(s, 1, m))
  IN  IF k <= 0 THEN <<>>
      ELSE IF m = Len(s) \/ rest = 0 THEN SubSeq(s, 1, m)
      ELSE Append(SubSeq(s, 1, m), [s[m + 1] EXCEPT !.n = rest, !.whole = FALSE])

NoText == <<>>

PlaceholderText == <<Piece("placeholder", 33, 0)>>

NoImagesText == <<Piece("noimages", 31, 0)>>

AlreadyProcessedText == <<Piece("already", 97, 0)>>

\* `Processing ${n} image${n > 1 ? "s" : ""}... please wait.`
CountText(n) ==
  <<Piece("count", 11 + DecLen(n) + (IF n > 1 THEN 7 ELSE 6) + 16, n)>>

\* `Processing image ${i + 1} of ${n}... please wait.`
ProgressText(i, n) ==
  <<[t |-> "progress", n |-> 17 + DecLen(i) + 4 + DecLen(n) + 16, a |-> i, whole |-> TRUE]>>

FailedText == <<Piece("failed", 47, 0)>>

truncationNotice == <<Piece("notice", TruncationNoticeLen, 0)>>

\* `\n\n_Note: Limited to ${MAX_IMAGES} images per request. ${rest} more images remain unprocessed._`
CapNote(rest) ==
  <<Piece("capnote", 20 + DecLen(MAX_IMAGES) + 21 + DecLen(rest) + 33, rest)>>

\* error.message of the errors the collaborators raise
ErrorMessageLen(err) ==
  CASE err = "msg_too_long" -> 31
    [] err = "update_failed" -> 28
    [] err = "replies_failed" -> 30
    [] err = "ledger_read_failed" -> 26
    [] err = "ledger_write_failed" -> 27
    [] OTHER -> 13

\* `Error processing images: ${error.message}. Please try again.`
ErrorText(err) == <<Piece("error", 25 + ErrorMessageLen(err) + 19, 0)>>

(* ------------------------------------------------------------------ *)
(* Threads, files and the model's responses                            *)
(* ------------------------------------------------------------------ *)

Range(s) == {s[k] : k \in 1..Len(s)}

\* what the model returned for a file: json = the text, once unwrapped,
\* parses as JSON, val = what it parses to ("object", "null", or "scalar"
\* for a number, string, boolean or array), fence = how the text is wrapped
\* ("none", "json" = in a ```json block, "lead" = such a block after other
\* characters), ext / tr = length of extractedText / englishTranslation
\* (0 = null or ""), eng = isEnglish, lang = length of the language name
RespEnglish(n) ==
  [json |-> TRUE, val |-> "object", fence |-> "none",
   ext |-> n, eng |-> TRUE, tr |-> 0, lang |-> 7]

RespForeign(n, m) ==
  [json |-> TRUE, val |-> "object", fence |-> "none",
   ext |-> n, eng |-> FALSE, tr |-> m, lang |-> 7]

RespNoText ==
  [json |-> TRUE, val |-> "object", fence |-> "none",
   ext |-> 0, eng |-> FALSE, tr |-> 0, lang |-> 4]

RespGarbage ==
  [json |-> FALSE, val |-> "object", fence |-> "none",
   ext |-> 0, eng |-> FALSE, tr |-> 0, lang |-> 0]

\* the text is the JSON literal null
RespNull == [RespNoText EXCEPT !.val = "null"]

\* the text is JSON but no object: 42, "text", true, []
RespScalar == [RespNoText EXCEPT !.val = "scalar"]

Fenced(resp, fence) == [resp EXCEPT !.fence = fence]

\* the texts the model is made to return in direct calls of performOCR
ModelTexts ==
  {RespEnglish(12), RespEnglish(0), RespForeign(9, 11), RespForeign(9, 0),
   RespNoText, RespGarbage, RespScalar, RespNull,
   Fenced(RespEnglish(12), "json"), Fenced(RespEnglish(12), "lead"),
   Fenced(RespNull, "json")}

\* a SlackFile: isImage = mimetype starts with "image/",
\* hasUrl = url_private_download || url_private is set,
\* flaky = its download or its extraction may raise
Img(id, resp) ==
  [id |-> id, isImage |-> TRUE, hasUrl |-> TRUE, nameLen |-> 8, resp |-> resp,
   flaky |-> TRUE]

\* an image whose download and extraction never raise
Sound(file) == [file EXCEPT !.flaky = FALSE]

ImgNoUrl(id) ==
  [id |-> id, isImage |-> TRUE, hasUrl |-> FALSE, nameLen |-> 8, resp |-> RespNoText,
   flaky |-> FALSE]

Pdf(id) ==
  [id |-> id, isImage |-> FALSE, hasUrl |-> TRUE, nameLen |-> 8, resp |-> RespNoText,
   flaky |-> FALSE]

\* size of the thread that exceeds the cap
BigThreadSize == 60

ThreadEmpty == << [files |-> <<>>] >>

ThreadPdf == << [files |-> <<Pdf(9)>>], [files |-> <<>>] >>

ThreadOne == << [files |-> <<Img(1, RespEnglish(2 * SLACK_MAX_TEXT_LENGTH))>>] >>

ThreadThree ==
  << [files |-> <<Img(1, RespEnglish(600)), Pdf(9)>>],
     [files |-> <<>>],
     [files |-> <<Img(2, RespForeign(300, 320)), Img(3, RespGarbage)>>] >>

ThreadNoUrl == << [files |-> <<Img(1, RespEnglish(20)), ImgNoUrl(2)>>] >>

\* two images in two messages; the second one cannot fail and has no text
ThreadTwo ==
  << [files |-> <<Img(1, RespEnglish(20))>>],
     [files |-> <<Sound(Img(2, RespNoText))>>] >>

\* one image whose rendered text is exactly as long as the floor of the
\* halving loop
ThreadFloor == << [files |-> <<Img(1, RespEnglish(MinRetryLen))>>] >>

\* one image whose rendered text is one character longer than that floor
ThreadOverFloor == << [files |-> <<Img(1, RespEnglish(MinRetryLen + 1))>>] >>

\* more images than the cap; the last two under the cap may fail, and the
\* first of these carries a text longer than the local limit
ThreadBig ==
  [k \in 1..BigThreadSize |->
     [files |-> << IF k = MAX_IMAGES - 1
                   THEN Img(k, RespEnglish(SLACK_MAX_TEXT_LENGTH + 2000))
                   ELSE IF k = MAX_IMAGES THEN Img(k, RespEnglish(500))
                   ELSE Sound(Img(k, RespEnglish(500))) >>]]

\* the threads whose images all fit under the cap
ThreadsUnderCap ==
  {ThreadEmpty, ThreadPdf, ThreadOne, ThreadTwo, ThreadThree, ThreadNoUrl,
   ThreadFloor, ThreadOverFloor}

Threads == ThreadsUnderCap \cup {ThreadBig}

\* the length limit the platform enforces on chat.update
PlatformLimits == {100, 450, 40000}

\* no thread deleted from has more replies than this
MaxReplies == 2

(* ------------------------------------------------------------------ *)
(* lib/slack.ts                                                        *)
(* ------------------------------------------------------------------ *)

\* a plausible slip: every file counts as an image
findImagesInThreadAnyFile(messages) ==
  LET RECURSIVE AllFiles(_)
      AllFiles(ms) == IF Len(ms) = 0 THEN <<>>
                      ELSE ms[1].files \o AllFiles(SubSeq(ms, 2, Len(ms)))
  IN AllFiles(messages)

\* the image files of the messages, in thread order
RECURSIVE findImagesInThread(_)
findImagesInThread(messages) ==
  IF Len(messages) = 0 THEN <<>>
  ELSE IF Len(messages) = 1
       THEN SelectSeq(messages[1].files, LAMBDA f : f.isImage)
  ELSE LET h == Len(messages) \div 2
       IN findImagesInThread(SubSeq(messages, 1, h))
            \o findImagesInThread(SubSeq(messages, h + 1, Len(messages)))

(* ------------------------------------------------------------------ *)
(* lib/ocr.ts                                                          *)
(* ------------------------------------------------------------------ *)

\* text.replace(/^```json\n?/i, "").replace(/\n?```$/i, "").trim() is
\* something JSON.parse accepts
ParsesAsJson(resp) == resp.json /\ resp.fence \in {"none", "json"}

\* JSON.parse gave null: `response.extractedText` raises a TypeError
performOCRThrows(image) == ParsesAsJson(image.resp) /\ image.resp.val = "null"

\* performOCR after generateText returned: the OCRResult for the
\* model's response (trLen / origLen 0 = the field is undefined)
performOCR(image) ==
  LET r == image.resp
      base == [fileId |-> image.id, nameLen |-> image.nameLen, textLen |-> 0,
               langLen |-> 7, trLen |-> 0, origLen |-> 0, noTextFound |-> TRUE]
  IN  IF ~ParsesAsJson(r) THEN base
      ELSE IF r.val # "object" \/ r.ext = 0 THEN [base EXCEPT !.langLen = 4]
      ELSE IF r.eng
           THEN [base EXCEPT !.textLen = r.ext, !.langLen = r.lang,
                             !.noTextFound = FALSE]
           ELSE [base EXCEPT !.textLen = IF r.tr > 0 THEN r.tr ELSE r.ext,
                             !.langLen = r.lang, !.trLen = r.tr,
                             !.origLen = r.ext, !.noTextFound = FALSE]

Divider == <<Piece("divider", 7, 0)>>

\* a plausible slip: the original-language block comes first
FormatOneOriginalFirst(result, showHeader) ==
  (IF showHeader THEN <<Piece("filename", result.nameLen + 4, result.fileId)>>
                 ELSE <<>>)
  \o (IF result.noTextFound
      THEN <<Piece("notext", 25, result.fileId)>>
      ELSE IF result.trLen > 0 /\ result.origLen > 0
           THEN << Piece("origlabel", 11 + result.langLen + 4, result.fileId),
                   Piece("original", result.origLen, result.fileId) >>
                \o Divider
                \o << Piece("trlabel", 23, result.fileId),
                      Piece("text", result.textLen, result.fileId) >>
           ELSE <<Piece("text", result.textLen, result.fileId)>>)

\* one element of formattedResults
FormatOne(result, showHeader) ==
  (IF showHeader THEN <<Piece("filename", result.nameLen + 4, result.fileId)>>
                 ELSE <<>>)
  \o (IF result.noTextFound
      THEN <<Piece("notext", 25, result.fileId)>>
      ELSE IF result.trLen > 0 /\ result.origLen > 0
           THEN << Piece("trlabel", 23, result.fileId),
                   Piece("text", result.textLen, result.fileId) >>
                \o Divider
                \o << Piece("origlabel", 11 + result.langLen + 4, result.fileId),
                      Piece("original", result.origLen, result.fileId) >>
           ELSE <<Piece("text", result.textLen, result.fileId)>>)

\* formattedResults.join("\n\n---\n\n")
RECURSIVE JoinSections(_, _)
JoinSections(results, showHeader) ==
  IF Len(results) = 1 THEN FormatOne(results[1], showHeader)
  ELSE LET h == Len(results) \div 2
       IN JoinSections(SubSeq(results, 1, h), showHeader) \o Divider
            \o JoinSections(SubSeq(results, h + 1, Len(results)), showHeader)

\* a plausible slip: the file name header is never shown
formatOCRResultsForSlackNoHeader(results) ==
  IF Len(results) = 0 THEN NoImagesText
  ELSE JoinSections(results, FALSE)

formatOCRResultsForSlack(results) ==
  IF Len(results) = 0 THEN NoImagesText
  ELSE JoinSections(results, Len(results) > 1)

(* ------------------------------------------------------------------ *)
(* lib/blob.ts: the ledger of processed file ids                       *)
(* ------------------------------------------------------------------ *)

filterUnprocessedFiles(files, processedFileIds) ==
  SelectSeq(files, LAMBDA f : f.id \notin Range(processedFileIds))

\* a plausible slip: the write overwrites the record with the new ids
MergeIdsOverwrites(existing, newIds) == newIds

\* a plausible slip: the write appends without looking at what is there
MergeIdsAppends(existing, newIds) == existing \o newIds

\* the merge of markFilesAsProcessed: existing ids, then the new ones not yet there
MergeIds(existing, newIds) ==
  LET keep == {k \in 1..Len(newIds) :
                 /\ newIds[k] \notin Range(existing)
                 /\ \A m \in 1..(k - 1) : newIds[m] # newIds[k]}
      nth(r) == CHOOSE k \in keep : Cardinality({m \in keep : m <= k}) = r
  IN  existing \o [r \in 1..Cardinality(keep) |-> newIds[nth(r)]]

(* ------------------------------------------------------------------ *)
(* State                                                               *)
(* ------------------------------------------------------------------ *)

VARIABLES
  thread,         \* the messages conversations.replies returns for the thread
  platformLimit,  \* the text length above which chat.update answers msg_too_long
  ledger,         \* processedFileIds of the thread's ledger record (<<>> = no record)
  job,            \* job[j]: the locals of processThread invocation j
  runs,           \* number of invocations started so far
  lastRun,        \* summary of the invocation that finished last
  env,            \* process.env: which credentials are configured
  processedEvents,\* the event ids the events handler has seen, oldest first
  http,           \* the request the events handler answered last
  startedFor,     \* the event ids the handler called processThread for, in order
  ocrOutcomes,    \* what direct calls of performOCR gave, in call order
  rendered,       \* what formatOCRResultsForSlack returned for them
  currentSession, \* the logger's session buffer (module level, one per process)
  logState,       \* logState[j]: what the handler's task j has logged since logger.start
  flushed         \* flushed[j]: what the logger.flush of task j did

handlerVars == <<env, processedEvents, http, startedFor>>

ocrVars == <<ocrOutcomes, rendered>>

logVars == <<currentSession, logState, flushed>>

vars == <<thread, platformLimit, ledger, job, runs, lastRun, handlerVars, ocrVars,
          logVars>>

Jobs == 1..NumJobs

\* an invocation slot before processThread is called
IdleJob ==
  [pc |-> "idle", force |-> FALSE,
   hasStatus |-> FALSE,            \* statusMessageTs is set
   statusMessageTs |-> 0,          \* the ts the placeholder post returned
   nPosts |-> 0,                   \* postMessageToThread calls issued
   nUpdateCalls |-> 0,             \* updateMessage calls issued
   appliedAt |-> 0,                \* nUpdateCalls when the last update was applied
   targets |-> {},                 \* the ts values passed to updateMessage
   status |-> NoText,              \* current text of the status message
   allImages |-> <<>>, processedFileIds |-> <<>>, unprocessedImages |-> <<>>,
   i |-> 0, results |-> <<>>, processedIds |-> <<>>,
   failedIds |-> {},               \* ids of the items that gave no result
   existing |-> <<>>,              \* what markFilesAsProcessed read
   composed |-> NoText,            \* response before the size adaptation
   response |-> NoText,
   attempts |-> 0,                 \* final updates attempted
   retried |-> {},                 \* the errors after which the final update was retried
   error |-> "none",
   outcome |-> "none",             \* "returned" | "raised"
   errorUpdate |-> "none",         \* the catch block's update: "ok" | "failed"
   nErrorUpdates |-> 0,            \* updates attempted by the catch block
   thrown |-> "none",              \* the error the caller receives
   processedCount |-> 0, skippedCount |-> 0,
   ledgerAtStart |-> <<>>,
   nGetProcessed |-> 0,            \* getProcessedFileIds calls of processThread
   nMarkCalls |-> 0,               \* markFilesAsProcessed calls
   nLedgerWrites |-> 0,            \* ledger records written
   nReplies |-> 0,                 \* getThreadMessages calls
   nOcr |-> 0,                     \* performOCR calls
   inFlight |-> {},                \* ids of the files whose performOCR call is pending
   ocrIds |-> {},                  \* ids of the files handed to performOCR
   nUpdates |-> 0]                 \* updates applied to the status message

NoRun == [valid |-> FALSE, force |-> FALSE, outcome |-> "none",
          processedCount |-> 0, skippedCount |-> 0, nImages |-> 0]

\* every credential is configured
FullEnv == [botToken |-> TRUE, signingSecret |-> TRUE, blobToken |-> TRUE]

\* an app_mention event delivered by the platform, correctly signed
Mention(eventId, force) ==
  [method |-> "POST",
   sig |-> "valid",          \* "valid" | "wrong" | "malformed" (absent, other length)
   jsonOk |-> TRUE,          \* the body parses as JSON
   ptype |-> "event_callback",
   eventId |-> eventId,
   etype |-> "app_mention",
   im |-> FALSE,             \* channel_type = "im"
   botId |-> FALSE,          \* the event carries bot_id
   mentions |-> TRUE,        \* the text holds <@botUserId>
   force |-> force]          \* the text holds the word "force"

\* a direct message event
Dm(eventId, botId, mentions) ==
  [Mention(eventId, FALSE) EXCEPT !.etype = "message", !.im = TRUE,
                                  !.botId = botId, !.mentions = mentions]

\* the requests delivered to the events handler
Requests ==
  {Mention(1, FALSE), Mention(1, TRUE), Mention(2, FALSE),
   Dm(2, FALSE, TRUE), Dm(2, TRUE, TRUE), Dm(1, FALSE, FALSE),
   [Mention(1, FALSE) EXCEPT !.method = "GET"],
   [Mention(1, FALSE) EXCEPT !.sig = "wrong"],
   [Mention(1, FALSE) EXCEPT !.sig = "malformed"],
   [Mention(1, FALSE) EXCEPT !.jsonOk = FALSE],
   [Mention(1, FALSE) EXCEPT !.ptype = "url_verification"],
   [Mention(1, FALSE) EXCEPT !.ptype = "other"],
   [Mention(2, FALSE) EXCEPT !.etype = "reaction_added"]}

\* no request answered yet
NoRequest ==
  [n |-> 0,                  \* requests answered so far, one at a time
   burst |-> 0,              \* events answered in bursts so far
   req |-> Mention(1, FALSE),
   duplicate |-> FALSE,      \* its event id had been seen before
   status |-> 0,             \* the HTTP status of the answer (0 = none sent)
   sent |-> 0,               \* res.status(..).json(..) calls of the handler
   threw |-> FALSE,          \* the handler raised (the platform answers 500)
   started |-> FALSE,        \* processThread was called for the request
   authTests |-> 0,          \* auth.test calls of the handler
   logged |-> 0]             \* logRequest calls (debug records put to the store)

\* let currentSession = null (entries[k]: the entries task k put in)
NoSession == [open |-> FALSE, sessionId |-> 0, entries |-> [k \in Jobs |-> 0]]

\* a task the handler has not started, or whose flush is over
NotLogging == [started |-> FALSE, emitted |-> 0]

\* no logger.flush of the task yet
NotFlushed ==
  [done |-> FALSE,
   url |-> FALSE,            \* flushLogs returned the blob's url (not null)
   emitted |-> 0,            \* the entries the task had emitted since logger.start
   session |-> NoSession]    \* the session flushLogs handed to put

\* nothing has called the handler or the functions of lib/ocr.ts directly
QuietInit ==
  /\ currentSession = NoSession
  /\ logState = [j \in Jobs |-> NotLogging]
  /\ flushed = [j \in Jobs |-> NotFlushed]
  /\ processedEvents = <<>>
  /\ http = NoRequest
  /\ startedFor = <<>>
  /\ ocrOutcomes = <<>>
  /\ rendered = NoText

Init ==
  /\ thread \in Threads
  /\ platformLimit \in PlatformLimits
  /\ ledger = <<>>
  /\ job = [j \in Jobs |-> IdleJob]
  /\ runs = 0
  /\ lastRun = NoRun
  /\ env = FullEnv
  /\ QuietInit

(* ------------------------------------------------------------------ *)
(* lib/process-thread.ts: processThread                                *)
(* ------------------------------------------------------------------ *)

Min(a, b) == IF a < b THEN a ELSE b

\* a plausible slip: the cap is not applied
CapImagesKeepsAll(unprocessedImages) == unprocessedImages

\* unprocessedImages.slice(0, MAX_IMAGES)
CapImages(unprocessedImages) ==
  SubSeq(unprocessedImages, 1, Min(Len(unprocessedImages), MAX_IMAGES))

imagesToProcess(j) == CapImages(job[j].unprocessedImages)

limitReached(j) == Len(job[j].unprocessedImages) > MAX_IMAGES

\* a plausible slip: the force flag is not looked at
ReadsLedgerAlways(force) == TRUE

\* if (!force): the run reads the ledger and filters the images by it
ReadsLedger(force) == ~force

\* chat.update of a text: what the call can answer
UpdateOutcomes(text) ==
  IF TextLen(text) > platformLimit THEN {"msg_too_long", "update_failed"}
  ELSE {"ok", "update_failed"}

\* err instanceof Error && err.message.includes("msg_too_long")
isToolong(err) == err = "msg_too_long"

\* updateMessage(client, channel, statusMessageTs, ...) has been called
Issued(rec) ==
  [rec EXCEPT !.nUpdateCalls = @ + 1, !.targets = @ \cup {rec.statusMessageTs}]

\* the record after `await updateMessage(..., text)` answered o: the next
\* statement on success, the catch block on failure
AfterUpdate(rec, text, o, nextPc) ==
  IF o = "ok"
  THEN [Issued(rec) EXCEPT !.status = text, !.nUpdates = @ + 1,
                           !.appliedAt = rec.nUpdateCalls + 1, !.pc = nextPc]
  ELSE [Issued(rec) EXCEPT !.error = o, !.pc = "catch"]

\* the return statement: {processedCount, skippedCount}
Returned(rec, processedCount, skippedCount) ==
  [rec EXCEPT !.pc = "done", !.outcome = "returned",
              !.processedCount = processedCount, !.skippedCount = skippedCount]

\* processThread up to its first await: getSlackClient() raises when
\* SLACK_BOT_TOKEN is not set, before anything is posted
Invoked(force) ==
  IF env.botToken
  THEN [IdleJob EXCEPT !.pc = "post", !.force = force, !.ledgerAtStart = ledger]
  ELSE [IdleJob EXCEPT !.pc = "done", !.force = force, !.ledgerAtStart = ledger,
                       !.error = "no_token", !.thrown = "no_token",
                       !.outcome = "raised"]

\* processThread is called; sequential runs: no other invocation is live
\* log(level, message, data) called by task j: the entry goes to the
\* session buffer if there is one, whoever started it
log(session, j) ==
  IF session.open THEN [session EXCEPT !.entries[j] = @ + 1] ELSE session

\* logger.start(..) in the task the handler hands to waitUntil, with the
\* entries logged up to the first await of processThread, counted as one:
\* the buffer is replaced by a new session
startLogSession(j) ==
  /\ currentSession' = log([open |-> TRUE, sessionId |-> runs + 1,
                            entries |-> [k \in Jobs |-> 0]], j)
  /\ logState' = [logState EXCEPT ![j] = [started |-> TRUE, emitted |-> 1]]
  /\ flushed' = [flushed EXCEPT ![j] = NotFlushed]

\* the logger calls of a step of processThread, counted as one entry:
\* a step logs when logger calls follow its await (logs), and in any case
\* when it raises into the catch block, whose first statement logs
Logged(j, logs) ==
  IF logState[j].started /\ (logs \/ job'[j].pc = "catch")
  THEN /\ currentSession' = log(currentSession, j)
       /\ logState' = [logState EXCEPT ![j].emitted = @ + 1]
       /\ flushed' = flushed
  ELSE UNCHANGED logVars

\* what the task does when processThread has settled: it logs the success
\* or the error, then finally { await logger.flush() }: flushLogs returns
\* null when there is no session or no entry, else it takes the buffer,
\* sets currentSession = null and puts the session to the store
\* (stored: the put answers)
flushLogs(j, stored) ==
  LET session == log(currentSession, j)
      emitted == logState[j].emitted + 1
  IN  /\ logState' = [logState EXCEPT ![j] = NotLogging]
      /\ IF ~session.open
         THEN /\ currentSession' = currentSession
              /\ flushed' = [flushed EXCEPT ![j] =
                   [done |-> TRUE, url |-> FALSE, emitted |-> emitted,
                    session |-> NoSession]]
         ELSE /\ currentSession' = NoSession
              /\ flushed' = [flushed EXCEPT ![j] =
                   [done |-> TRUE, url |-> stored, emitted |-> emitted,
                    session |-> session]]

Start(j, force) ==
  /\ runs < MaxRuns
  /\ \A k \in Jobs : job[k].pc = "idle"
  /\ j = 1
  /\ job' = [job EXCEPT ![j] = Invoked(force)]
  /\ runs' = runs + 1
  /\ UNCHANGED <<thread, platformLimit, ledger, lastRun, handlerVars, ocrVars, logVars>>

\* a plausible slip: the post sits inside the outer try, its failure is
\* handled like any other
PostFailureCaught(j) ==
  /\ job[j].pc = "post"
  /\ \/ job' = [job EXCEPT ![j] = [@ EXCEPT !.hasStatus = TRUE,
                                            !.statusMessageTs = runs,
                                            !.nPosts = @ + 1,
                                            !.status = PlaceholderText,
                                            !.pc = "replies"]]
     \/ job' = [job EXCEPT ![j] = [@ EXCEPT !.error = "post_failed",
                                            !.nPosts = @ + 1,
                                            !.pc = "catch"]]
  /\ UNCHANGED <<thread, platformLimit, ledger, runs, lastRun, handlerVars, ocrVars>>
  /\ Logged(j, TRUE)

\* postMessageToThread("Processing images... please wait.")
PostProcessingMessage(j) ==
  /\ job[j].pc = "post"
  /\ \/ job' = [job EXCEPT ![j] = [@ EXCEPT !.hasStatus = TRUE,
                                            !.statusMessageTs = runs,
                                            !.nPosts = @ + 1,
                                            !.status = PlaceholderText,
                                            !.pc = "replies"]]
     \/ job' = [job EXCEPT ![j] = [@ EXCEPT !.error = "post_failed",
                                            !.nPosts = @ + 1,
                                            !.thrown = "post_failed",
                                            !.outcome = "raised", !.pc = "done"]]
  /\ UNCHANGED <<thread, platformLimit, ledger, runs, lastRun, handlerVars, ocrVars>>
  /\ Logged(j, TRUE)

\* getThreadMessages, findImagesInThread and the branch on their result
GetThreadMessages(j) ==
  /\ job[j].pc = "replies"
  /\ \/ LET allImages == findImagesInThread(thread)
        IN job' = [job EXCEPT ![j] =
             [@ EXCEPT !.allImages = allImages,
                       !.unprocessedImages = allImages,
                       !.nReplies = @ + 1,
                       !.pc = IF Len(allImages) = 0 THEN "noimages"
                              ELSE IF ReadsLedger(job[j].force) THEN "getprocessed"
                              ELSE "count"]]
     \/ job' = [job EXCEPT ![j] = [@ EXCEPT !.error = "replies_failed",
                                            !.nReplies = @ + 1,
                                            !.pc = "catch"]]
  /\ UNCHANGED <<thread, platformLimit, ledger, runs, lastRun, handlerVars, ocrVars>>
  /\ Logged(j, TRUE)

\* a plausible slip: the branch returns without touching the status message
UpdateNoImagesSilent(j) ==
  /\ job[j].pc = "noimages"
  /\ job' = [job EXCEPT ![j] = Returned(@, 0, 0)]
  /\ UNCHANGED <<thread, platformLimit, ledger, runs, lastRun, handlerVars, ocrVars>>
  /\ Logged(j, FALSE)

\* a plausible slip: the branch lacks its return and falls into the count update
UpdateNoImagesFallsThrough(j) ==
  /\ job[j].pc = "noimages"
  /\ \E o \in UpdateOutcomes(NoImagesText) :
       job' = [job EXCEPT ![j] = AfterUpdate(@, NoImagesText, o, "count")]
  /\ UNCHANGED <<thread, platformLimit, ledger, runs, lastRun, handlerVars, ocrVars>>
  /\ Logged(j, FALSE)

\* allImages.length === 0: update to "No images found in this thread." and return
UpdateNoImages(j) ==
  /\ job[j].pc = "noimages"
  /\ \E o \in UpdateOutcomes(NoImagesText) :
       job' = [job EXCEPT ![j] =
         LET r == AfterUpdate(@, NoImagesText, o, "done")
         IN IF o = "ok" THEN Returned(r, 0, 0) ELSE r]
  /\ UNCHANGED <<thread, platformLimit, ledger, runs, lastRun, handlerVars, ocrVars>>
  /\ Logged(j, FALSE)

\* !force: getProcessedFileIds and filterUnprocessedFiles
GetProcessedFileIds(j) ==
  /\ job[j].pc = "getprocessed"
  /\ \/ LET unprocessed == filterUnprocessedFiles(job[j].allImages, ledger)
        IN /\ env.blobToken
           /\ job' = [job EXCEPT ![j] =
                [@ EXCEPT !.processedFileIds = ledger,
                          !.unprocessedImages = unprocessed,
                          !.nGetProcessed = @ + 1,
                          !.pc = IF Len(unprocessed) = 0 THEN "already" ELSE "count"]]
     \/ job' = [job EXCEPT ![j] = [@ EXCEPT !.error = "ledger_read_failed",
                                            !.nGetProcessed = @ + 1,
                                            !.pc = "catch"]]
  /\ UNCHANGED <<thread, platformLimit, ledger, runs, lastRun, handlerVars, ocrVars>>
  /\ Logged(j, TRUE)

\* unprocessedImages.length === 0: update to "All images ... already been processed"
UpdateAlreadyProcessed(j) ==
  /\ job[j].pc = "already"
  /\ \E o \in UpdateOutcomes(AlreadyProcessedText) :
       job' = [job EXCEPT ![j] =
         LET r == AfterUpdate(@, AlreadyProcessedText, o, "done")
         IN IF o = "ok" THEN Returned(r, 0, Len(job[j].allImages)) ELSE r]
  /\ UNCHANGED <<thread, platformLimit, ledger, runs, lastRun, handlerVars, ocrVars>>
  /\ Logged(j, FALSE)

\* a plausible slip: markFilesAsProcessed is called whatever succeeded
AfterItemAlwaysMarks(rec) ==
  LET n == Len(CapImages(rec.unprocessedImages))
  IN  IF rec.i < n
      THEN [rec EXCEPT !.pc = IF n > 1 THEN "progress" ELSE "download"]
      ELSE [rec EXCEPT !.pc = "markread"]

\* a plausible slip: the progress update is issued for a single image too
AfterItemAlwaysProgress(rec) ==
  LET n == Len(CapImages(rec.unprocessedImages))
  IN  IF rec.i < n
      THEN [rec EXCEPT !.pc = "progress"]
      ELSE [rec EXCEPT !.pc = IF Len(rec.processedIds) > 0 THEN "markread"
                              ELSE IF Len(rec.results) > 0 THEN "compose"
                              ELSE "failedmsg"]

\* the statement after item i: the next item's progress update or download,
\* or, after the loop, the ledger write, the result or the failure text
AfterItem(rec) ==
  LET n == Len(CapImages(rec.unprocessedImages))
  IN  IF rec.i < n
      THEN [rec EXCEPT !.pc = IF n > 1 THEN "progress" ELSE "download"]
      ELSE [rec EXCEPT !.pc = IF Len(rec.processedIds) > 0 THEN "markread"
                              ELSE IF Len(rec.results) > 0 THEN "compose"
                              ELSE "failedmsg"]

\* update to `Processing ${n} image(s)... please wait.` and enter the loop
UpdateCount(j) ==
  /\ job[j].pc = "count"
  /\ LET text == CountText(Len(imagesToProcess(j)))
     IN \E o \in UpdateOutcomes(text) :
          job' = [job EXCEPT ![j] =
            LET r == AfterUpdate(@, text, o, "loop")
            IN IF o = "ok" THEN AfterItem(r) ELSE r]
  /\ UNCHANGED <<thread, platformLimit, ledger, runs, lastRun, handlerVars, ocrVars>>
  /\ Logged(j, TRUE)

\* imagesToProcess.length > 1: update to `Processing image ${i + 1} of ${n}...`
UpdateProgress(j) ==
  /\ job[j].pc = "progress"
  /\ LET text == ProgressText(job[j].i + 1, Len(imagesToProcess(j)))
     IN \E o \in UpdateOutcomes(text) :
          job' = [job EXCEPT ![j] = AfterUpdate(@, text, o, "download")]
  /\ UNCHANGED <<thread, platformLimit, ledger, runs, lastRun, handlerVars, ocrVars>>
  /\ Logged(j, TRUE)

\* the item gave no result: the loop goes on with the next image
SkipItem(rec) ==
  [rec EXCEPT !.failedIds = @ \cup {rec.unprocessedImages[rec.i + 1].id},
              !.i = @ + 1]

\* a plausible slip: the catch leaves the loop instead of continuing
ItemFailedBreaks(rec) ==
  AfterItem([SkipItem(rec) EXCEPT !.i = Len(CapImages(rec.unprocessedImages))])

\* the catch of the per-item try: log, continue with the next image
ItemFailed(rec) == AfterItem(SkipItem(rec))

\* the per-item try up to downloadImage: no URL -> continue; the download
\* returns the bytes or raises
DownloadImage(j) ==
  /\ job[j].pc = "download"
  /\ LET image == imagesToProcess(j)[job[j].i + 1]
     IN \/ /\ ~image.hasUrl
           /\ job' = [job EXCEPT ![j] = AfterItem(SkipItem(@))]
        \/ /\ image.hasUrl
           /\ job' = [job EXCEPT ![j] = [@ EXCEPT !.pc = "ocr"]]
        \/ /\ image.hasUrl
           /\ image.flaky
           /\ job' = [job EXCEPT ![j] = ItemFailed(@)]
  /\ UNCHANGED <<thread, platformLimit, ledger, runs, lastRun, handlerVars, ocrVars>>
  /\ Logged(j, TRUE)

\* a plausible slip: the result is kept but its id is not recorded
ItemSucceededNoId(rec, image) ==
  AfterItem([rec EXCEPT !.results = Append(@, performOCR(image)),
                        !.i = @ + 1])

\* a plausible slip: a record without text is treated like a failed item
ItemSucceededOnlyWithText(rec, image) ==
  IF performOCR(image).noTextFound
  THEN ItemFailed(rec)
  ELSE AfterItem([rec EXCEPT !.results = Append(@, performOCR(image)),
                             !.processedIds = Append(@, image.id),
                             !.i = @ + 1])

\* results.push(result); processedIds.push(image.id)
ItemSucceeded(rec, image) ==
  AfterItem([rec EXCEPT !.results = Append(@, performOCR(image)),
                        !.processedIds = Append(@, image.id),
                        !.i = @ + 1])

\* a plausible slip: the call is not awaited, the loop goes on while it is pending
CallPerformOCRNotAwaited(j) ==
  /\ job[j].pc = "ocr"
  /\ LET image == imagesToProcess(j)[job[j].i + 1]
     IN job' = [job EXCEPT ![j] =
          ItemSucceeded([@ EXCEPT !.nOcr = @ + 1,
                                  !.ocrIds = @ \cup {image.id},
                                  !.inFlight = @ \cup {image.id}], image)]
  /\ UNCHANGED <<thread, platformLimit, ledger, runs, lastRun, handlerVars, ocrVars>>
  /\ Logged(j, FALSE)

\* performOCR(imageBuffer, ...) is called: the call is pending
CallPerformOCR(j) ==
  /\ job[j].pc = "ocr"
  /\ LET image == imagesToProcess(j)[job[j].i + 1]
     IN job' = [job EXCEPT ![j] = [@ EXCEPT !.nOcr = @ + 1,
                                            !.ocrIds = @ \cup {image.id},
                                            !.inFlight = @ \cup {image.id},
                                            !.pc = "ocrwait"]]
  /\ UNCHANGED <<thread, platformLimit, ledger, runs, lastRun, handlerVars, ocrVars>>
  /\ Logged(j, FALSE)

\* the awaited performOCR call settles: it returns a record or raises
\* (transport failure of generateText, TypeError)
PerformOCRSettles(j) ==
  /\ job[j].pc = "ocrwait"
  /\ LET image == imagesToProcess(j)[job[j].i + 1]
         settled(rec) == [rec EXCEPT !.inFlight = @ \ {image.id}]
     IN \/ job' = [job EXCEPT ![j] =
               IF performOCRThrows(image)
               THEN ItemFailed(settled(@))
               ELSE ItemSucceeded(settled(@), image)]
        \/ /\ image.flaky
           /\ job' = [job EXCEPT ![j] = ItemFailed(settled(@))]
  /\ UNCHANGED <<thread, platformLimit, ledger, runs, lastRun, handlerVars, ocrVars>>
  /\ Logged(j, TRUE)

\* markFilesAsProcessed, first half: read the ledger record
MarkFilesRead(j) ==
  /\ job[j].pc = "markread"
  /\ \/ /\ env.blobToken
        /\ job' = [job EXCEPT ![j] = [@ EXCEPT !.existing = ledger,
                                               !.nMarkCalls = @ + 1,
                                               !.pc = "markwrite"]]
     \/ job' = [job EXCEPT ![j] = [@ EXCEPT !.error = "ledger_read_failed",
                                            !.nMarkCalls = @ + 1,
                                            !.pc = "catch"]]
  /\ UNCHANGED <<thread, platformLimit, ledger, runs, lastRun, handlerVars, ocrVars>>
  /\ Logged(j, FALSE)

\* markFilesAsProcessed, second half: write the merged record
MarkFilesWrite(j) ==
  /\ job[j].pc = "markwrite"
  /\ \/ /\ env.blobToken
        /\ ledger' = MergeIds(job[j].existing, job[j].processedIds)
        /\ job' = [job EXCEPT ![j] =
             [@ EXCEPT !.nLedgerWrites = @ + 1,
                       !.pc = IF Len(job[j].results) > 0 THEN "compose"
                              ELSE "failedmsg"]]
     \/ /\ job' = [job EXCEPT ![j] = [@ EXCEPT !.error = "ledger_write_failed",
                                               !.pc = "catch"]]
        /\ UNCHANGED ledger
  /\ UNCHANGED <<thread, platformLimit, runs, lastRun, handlerVars, ocrVars>>
  /\ Logged(j, FALSE)

\* formatOCRResultsForSlack(results), plus the note when the cap cut the set
ComposedResponse(results, unprocessedImages) ==
  formatOCRResultsForSlack(results)
    \o (IF Len(unprocessedImages) > MAX_IMAGES
        THEN CapNote(Len(unprocessedImages) - MAX_IMAGES)
        ELSE <<>>)

\* a plausible slip: the cut does not reserve room for the notice
TruncateResponseNoReserve(response) ==
  IF TextLen(response) > SLACK_MAX_TEXT_LENGTH
  THEN SliceText(response, SLACK_MAX_TEXT_LENGTH) \o truncationNotice
  ELSE response

\* if (response.length > SLACK_MAX_TEXT_LENGTH) cut and append the notice
TruncateResponse(response) ==
  IF TextLen(response) > SLACK_MAX_TEXT_LENGTH
  THEN SliceText(response, SLACK_MAX_TEXT_LENGTH - TextLen(truncationNotice))
         \o truncationNotice
  ELSE response

\* a plausible slip: the retry halves the text and says nothing
HalveResponseSilently(response) == SliceText(response, TextLen(response) \div 2)

\* response.slice(0, Math.floor(response.length / 2)) + truncationNotice
HalveResponse(response) ==
  SliceText(response, TextLen(response) \div 2) \o truncationNotice

\* results.length > 0: render, annotate, truncate
ComposeResponse(j) ==
  /\ job[j].pc = "compose"
  /\ LET composed == ComposedResponse(job[j].results, job[j].unprocessedImages)
     IN job' = [job EXCEPT ![j] = [@ EXCEPT !.composed = composed,
                                            !.response = TruncateResponse(composed),
                                            !.pc = "publish"]]
  /\ UNCHANGED <<thread, platformLimit, ledger, runs, lastRun, handlerVars, ocrVars>>
  /\ Logged(j, FALSE)

\* a plausible slip: a body of exactly the floor length is halved too
RetriesHalvedAtFloor(err, response) ==
  isToolong(err) /\ TextLen(response) >= MinRetryLen

\* a plausible slip: the loop has no floor
RetriesHalvedAlways(err, response) == isToolong(err)

\* a plausible slip: any failure of the update is answered by halving
RetriesHalvedAnyError(err, response) == TextLen(response) > MinRetryLen

\* if (isToolong && response.length > 500): halve and retry
RetriesHalved(err, response) == isToolong(err) /\ TextLen(response) > MinRetryLen

\* one pass of the while (!posted) loop
PublishResponse(j) ==
  /\ job[j].pc = "publish"
  /\ \E o \in UpdateOutcomes(job[j].response) :
       job' = [job EXCEPT ![j] =
         LET r == [@ EXCEPT !.attempts = @ + 1]
         IN IF o = "ok"
            THEN Returned(AfterUpdate(r, r.response, o, "done"),
                          Len(r.results), Len(r.processedFileIds))
            ELSE IF RetriesHalved(o, r.response)
                 THEN [Issued(r) EXCEPT !.response = HalveResponse(@),
                                        !.retried = @ \cup {o}]
                 ELSE [Issued(r) EXCEPT !.error = o, !.pc = "catch"]]
  /\ UNCHANGED <<thread, platformLimit, ledger, runs, lastRun, handlerVars, ocrVars>>
  /\ Logged(j, TRUE)

\* results.length === 0: update to "Failed to process any images..." and return
UpdateFailed(j) ==
  /\ job[j].pc = "failedmsg"
  /\ \E o \in UpdateOutcomes(FailedText) :
       job' = [job EXCEPT ![j] =
         LET r == AfterUpdate(@, FailedText, o, "done")
         IN IF o = "ok" THEN Returned(r, Len(r.results), Len(r.processedFileIds))
            ELSE r]
  /\ UNCHANGED <<thread, platformLimit, ledger, runs, lastRun, handlerVars, ocrVars>>
  /\ Logged(j, TRUE)

\* a plausible slip: the error summary is posted as a new message
CatchErrorPostsNew(j) ==
  /\ job[j].pc = "catch"
  /\ job' = [job EXCEPT ![j] = [@ EXCEPT !.nPosts = @ + 1,
                                         !.nErrorUpdates = @ + 1,
                                         !.thrown = job[j].error,
                                         !.outcome = "raised", !.pc = "done"]]
  /\ UNCHANGED <<thread, platformLimit, ledger, runs, lastRun, handlerVars, ocrVars>>
  /\ Logged(j, FALSE)

\* a plausible slip: the error update is not guarded, its failure is what is thrown
CatchErrorMasks(j) ==
  /\ job[j].pc = "catch"
  /\ LET text == ErrorText(job[j].error)
     IN \E o \in UpdateOutcomes(text) :
          job' = [job EXCEPT ![j] =
            LET r == [Issued(@) EXCEPT !.nErrorUpdates = @ + 1,
                                       !.outcome = "raised", !.pc = "done"]
            IN IF o = "ok"
               THEN [r EXCEPT !.status = text, !.nUpdates = @ + 1,
                              !.appliedAt = r.nUpdateCalls,
                              !.errorUpdate = "ok", !.thrown = job[j].error]
               ELSE [r EXCEPT !.errorUpdate = "failed", !.thrown = o]]
  /\ UNCHANGED <<thread, platformLimit, ledger, runs, lastRun, handlerVars, ocrVars>>
  /\ Logged(j, FALSE)

\* the outer catch: best-effort update to the error summary, then rethrow
CatchError(j) ==
  /\ job[j].pc = "catch"
  /\ LET text == ErrorText(job[j].error)
     IN \E o \in UpdateOutcomes(text) :
          job' = [job EXCEPT ![j] =
            LET r == [Issued(@) EXCEPT !.nErrorUpdates = @ + 1,
                                       !.thrown = job[j].error,
                                       !.outcome = "raised", !.pc = "done"]
            IN IF o = "ok"
               THEN [r EXCEPT !.status = text, !.nUpdates = @ + 1,
                              !.appliedAt = r.nUpdateCalls,
                              !.errorUpdate = "ok"]
               ELSE [r EXCEPT !.errorUpdate = "failed"]]
  /\ UNCHANGED <<thread, platformLimit, ledger, runs, lastRun, handlerVars, ocrVars>>
  /\ Logged(j, FALSE)

\* the caller has the result (or the error): a task of the handler logs it
\* and flushes the log session; the slot is free again
Finish(j) ==
  /\ job[j].pc = "done"
  /\ lastRun' = [valid |-> TRUE, force |-> job[j].force,
                 outcome |-> job[j].outcome,
                 processedCount |-> job[j].processedCount,
                 skippedCount |-> job[j].skippedCount,
                 nImages |-> Len(job[j].allImages)]
  /\ job' = [job EXCEPT ![j] = IdleJob]
  /\ IF logState[j].started
     THEN \E stored \in BOOLEAN : flushLogs(j, stored)
     ELSE UNCHANGED logVars
  /\ UNCHANGED <<thread, platformLimit, ledger, runs, handlerVars, ocrVars>>

\* the steps of a live invocation
Steps(j) ==
    \/ PostProcessingMessage(j)
    \/ GetThreadMessages(j)
    \/ UpdateNoImages(j)
    \/ GetProcessedFileIds(j)
    \/ UpdateAlreadyProcessed(j)
    \/ UpdateCount(j)
    \/ UpdateProgress(j)
    \/ DownloadImage(j)
    \/ CallPerformOCR(j)
    \/ PerformOCRSettles(j)
    \/ MarkFilesRead(j)
    \/ MarkFilesWrite(j)
    \/ ComposeResponse(j)
    \/ PublishResponse(j)
    \/ UpdateFailed(j)
    \/ CatchError(j)
    \/ Finish(j)

Next ==
  \E j \in Jobs :
    \/ \E force \in BOOLEAN : Start(j, force)
    \/ Steps(j)

Spec == Init /\ [][Next]_vars

\* the same runs on the threads under the cap
InitUnderCap ==
  /\ thread \in ThreadsUnderCap
  /\ platformLimit \in PlatformLimits
  /\ ledger = <<>>
  /\ job = [j \in Jobs |-> IdleJob]
  /\ runs = 0
  /\ lastRun = NoRun
  /\ env = FullEnv
  /\ QuietInit

SpecUnderCap == InitUnderCap /\ [][Next]_vars

\* the threads of at most two images
ThreadsOfTwo == ThreadsUnderCap \ {ThreadThree}

InitFair ==
  /\ thread \in ThreadsOfTwo
  /\ platformLimit \in PlatformLimits
  /\ ledger = <<>>
  /\ job = [j \in Jobs |-> IdleJob]
  /\ runs = 0
  /\ lastRun = NoRun
  /\ env = FullEnv
  /\ QuietInit

\* a live invocation keeps running: every call it awaits settles, and the
\* statement after it is executed
SpecFair == InitFair /\ [][Next]_vars /\ \A j \in Jobs : WF_vars(Steps(j))

(* ------------------------------------------------------------------ *)
(* Overlapping invocations on one thread                               *)
(* ------------------------------------------------------------------ *)

\* the limit of the most permissive platform
LoosestLimit == CHOOSE x \in PlatformLimits : \A y \in PlatformLimits : y <= x

\* the threads of the runs that overlap and of the handler's jobs
SmallThreads == {ThreadPdf, ThreadNoUrl, ThreadTwo}

InitOverlap ==
  /\ thread \in SmallThreads
  /\ platformLimit = LoosestLimit
  /\ ledger = <<>>
  /\ job = [j \in Jobs |-> IdleJob]
  /\ runs = 0
  /\ lastRun = NoRun
  /\ env = FullEnv
  /\ QuietInit

\* the handler starts a task (logger.start, then processThread) while
\* other invocations may be live; it takes the first free slot
StartOverlapping(j, force) ==
  /\ runs < MaxRuns
  /\ job[j].pc = "idle"
  /\ \A k \in 1..(j - 1) : job[k].pc # "idle"
  /\ job' = [job EXCEPT ![j] = Invoked(force)]
  /\ runs' = runs + 1
  /\ startLogSession(j)
  /\ UNCHANGED <<thread, platformLimit, ledger, lastRun, handlerVars, ocrVars>>

NextOverlap ==
  \E j \in Jobs :
    \/ \E force \in BOOLEAN : StartOverlapping(j, force)
    \/ Steps(j)

SpecOverlap == InitOverlap /\ [][NextOverlap]_vars

(* ------------------------------------------------------------------ *)
(* api/slack/events.ts: the events handler                             *)
(* ------------------------------------------------------------------ *)

\* processedEvents.add(event_id), then the pruning of the oldest ids
SeenAfter(seen, eventId) ==
  LET added == Append(seen, eventId)
  IN  IF Len(added) > MaxSeenEvents
      THEN SubSeq(added, PrunedEvents + 1, Len(added))
      ELSE added

\* a plausible slip: messages of bots are handled like any other
isBotMessageNever(req) == FALSE

\* if (event.bot_id): the message was posted by a bot
isBotMessage(req) == req.botId

\* what the handler does with req: its answer, whether it raised, whether
\* it called processThread, the ids seen afterwards, its auth.test and
\* logRequest calls (authOk: auth.test answers)
Answer(req, authOk) ==
  LET base == [status |-> 200, sent |-> 1, threw |-> FALSE, start |-> FALSE,
               seen |-> processedEvents, authTests |-> 0, logged |-> 1]
      fresh == [base EXCEPT !.seen = SeenAfter(processedEvents, req.eventId)]
  IN  IF req.method # "POST" THEN [base EXCEPT !.status = 405, !.logged = 0]
      ELSE IF ~env.signingSecret THEN [base EXCEPT !.status = 500]
      ELSE IF req.sig = "malformed"
           THEN [base EXCEPT !.status = 500, !.sent = 0, !.threw = TRUE]
      ELSE IF req.sig = "wrong" THEN [base EXCEPT !.status = 401, !.logged = 2]
      ELSE IF ~req.jsonOk THEN [base EXCEPT !.status = 400]
      ELSE IF req.ptype = "url_verification" THEN base
      ELSE IF req.ptype # "event_callback" THEN [base EXCEPT !.status = 400]
      ELSE IF req.eventId \in Range(processedEvents) THEN base
      ELSE IF req.etype = "app_mention" THEN [fresh EXCEPT !.start = TRUE]
      ELSE IF req.etype = "message" /\ req.im
           THEN IF isBotMessage(req) THEN fresh
                ELSE IF ~env.botToken
                     THEN [fresh EXCEPT !.status = 500, !.sent = 0, !.threw = TRUE]
                ELSE IF ~authOk
                     THEN [fresh EXCEPT !.status = 500, !.sent = 0, !.threw = TRUE,
                                        !.authTests = 1]
                ELSE IF ~req.mentions THEN [fresh EXCEPT !.authTests = 1]
                ELSE [fresh EXCEPT !.authTests = 1, !.start = TRUE]
      ELSE fresh

\* a plausible slip: processThread is awaited, the response follows it
ResponseAfterProcessing(a) == IF a.start THEN 0 ELSE a.status

\* res.status(200).json(..) right after waitUntil(..): the response does
\* not wait for the work handed to waitUntil
ResponseAtDelivery(a) == a.status

\* the handler answers req; deliveries come while no invocation is live
Handler(req, authOk) ==
  /\ http.n < MaxRequests
  /\ \A k \in Jobs : job[k].pc = "idle"
  /\ LET a == Answer(req, authOk)
     IN /\ a.start => runs < MaxRuns
        /\ http' = [n |-> http.n + 1, burst |-> http.burst, req |-> req,
                    duplicate |-> req.eventId \in Range(processedEvents),
                    status |-> ResponseAtDelivery(a),
                    sent |-> a.sent,
                    threw |-> a.threw, started |-> a.start,
                    authTests |-> a.authTests, logged |-> a.logged]
        /\ processedEvents' = a.seen
        /\ startedFor' = IF a.start THEN Append(startedFor, req.eventId) ELSE startedFor
        /\ job' = IF a.start THEN [job EXCEPT ![1] = Invoked(req.force)] ELSE job
        /\ runs' = IF a.start THEN runs + 1 ELSE runs
        /\ IF a.start THEN startLogSession(1) ELSE UNCHANGED logVars
  /\ UNCHANGED <<thread, platformLimit, ledger, lastRun, env, ocrVars>>

\* any subset of the three credentials may be missing
InitHandler ==
  /\ thread \in SmallThreads
  /\ platformLimit = LoosestLimit
  /\ ledger = <<>>
  /\ job = [j \in Jobs |-> IdleJob]
  /\ runs = 0
  /\ lastRun = NoRun
  /\ env \in [botToken : BOOLEAN, signingSecret : BOOLEAN, blobToken : BOOLEAN]
  /\ QuietInit

NextHandler ==
  \/ \E req \in Requests : \E authOk \in BOOLEAN : Handler(req, authOk)
  \/ \E j \in Jobs : Steps(j)

SpecHandler == InitHandler /\ [][NextHandler]_vars

\* the ids of the events of the bursts: none is the id of a request of Requests
BurstIdBase == 10

\* how many events a burst delivers
BurstSizes == {PrunedEvents, MaxSeenEvents - 1}

\* the handler answers size further events, one after the other: each is
\* correctly signed, has an id never delivered before and a type that asks
\* for no processing, so each is answered 200 and its id is added; the
\* bursts taken are those in which no delivery prunes the set
Burst(size) ==
  /\ env.signingSecret
  /\ \A k \in Jobs : job[k].pc = "idle"
  /\ http.burst + size < MaxSeenEvents
  /\ Len(processedEvents) + size <= MaxSeenEvents
  /\ processedEvents' =
       processedEvents \o [k \in 1..size |-> BurstIdBase + http.burst + k - 1]
  /\ http' = [http EXCEPT
                !.burst = @ + size,
                !.req = [Mention(BurstIdBase + http.burst + size - 1, FALSE)
                           EXCEPT !.etype = "reaction_added"],
                !.duplicate = FALSE, !.status = 200, !.sent = 1, !.threw = FALSE,
                !.started = FALSE, !.authTests = 0, !.logged = 1]
  /\ UNCHANGED <<thread, platformLimit, ledger, job, runs, lastRun, env,
                 startedFor, ocrVars, logVars>>

\* a process that lives long enough to see more than MaxSeenEvents events
InitLongLived ==
  /\ thread \in SmallThreads
  /\ platformLimit = LoosestLimit
  /\ ledger = <<>>
  /\ job = [j \in Jobs |-> IdleJob]
  /\ runs = 0
  /\ lastRun = NoRun
  /\ env = FullEnv
  /\ QuietInit

NextLongLived ==
  \/ \E req \in Requests : \E authOk \in BOOLEAN : Handler(req, authOk)
  \/ \E size \in BurstSizes : Burst(size)
  \/ \E j \in Jobs : Steps(j)

SpecLongLived == InitLongLived /\ [][NextLongLived]_vars

\* a user deletes reply k of the thread, with the files it carries, while
\* no invocation is live: conversations.replies returns it no longer
DeleteMessage(k) ==
  /\ \A j \in Jobs : job[j].pc = "idle"
  /\ k \in 2..Len(thread)
  /\ thread' = SubSeq(thread, 1, k - 1) \o SubSeq(thread, k + 1, Len(thread))
  /\ UNCHANGED <<platformLimit, ledger, job, runs, lastRun, handlerVars, ocrVars, logVars>>

\* threads whose replies may be deleted between the invocations
InitEdited ==
  /\ thread \in {ThreadPdf, ThreadTwo, ThreadThree}
  /\ platformLimit = LoosestLimit
  /\ ledger = <<>>
  /\ job = [j \in Jobs |-> IdleJob]
  /\ runs = 0
  /\ lastRun = NoRun
  /\ env = FullEnv
  /\ QuietInit

NextEdited ==
  \/ Next
  \/ \E k \in 2..MaxReplies + 1 : DeleteMessage(k)

SpecEdited == InitEdited /\ [][NextEdited]_vars

\* a thread that opens with MAX_IMAGES images for which the model answers
\* "null" every time (performOCR raises on it), followed by images that
\* would be read without trouble; no download fails
ThreadStuck ==
  [k \in 1..BigThreadSize |->
     [files |-> << IF k <= MAX_IMAGES
                   THEN Sound(Img(k, RespNull))
                   ELSE Sound(Img(k, RespEnglish(20))) >>]]

\* the thread is mentioned once more, without "force", when the run before
\* is over (runs counts the invocations up to MaxRuns)
Rerun(j) ==
  /\ \A k \in Jobs : job[k].pc = "idle"
  /\ j = 1
  /\ job' = [job EXCEPT ![j] = Invoked(FALSE)]
  /\ runs' = IF runs < MaxRuns THEN runs + 1 ELSE runs
  /\ UNCHANGED <<thread, platformLimit, ledger, lastRun, handlerVars, ocrVars, logVars>>

InitRepeated ==
  /\ thread \in ThreadsOfTwo \cup {ThreadStuck}
  /\ platformLimit = LoosestLimit
  /\ ledger = <<>>
  /\ job = [j \in Jobs |-> IdleJob]
  /\ runs = 0
  /\ lastRun = NoRun
  /\ env = FullEnv
  /\ QuietInit

NextRepeated ==
  \E j \in Jobs :
    \/ Rerun(j)
    \/ Steps(j)

\* non-force runs without end on a thread that does not change: every
\* invocation runs to its end, and another one follows it
SpecRepeated ==
  /\ InitRepeated
  /\ [][NextRepeated]_vars
  /\ \A j \in Jobs : WF_vars(Steps(j)) /\ WF_vars(Rerun(j))

(* ------------------------------------------------------------------ *)
(* lib/ocr.ts called directly, as its tests do                         *)
(* ------------------------------------------------------------------ *)

\* no thread is processed; the functions of lib/ocr.ts are called directly
InitOcr ==
  /\ thread = ThreadEmpty
  /\ platformLimit = LoosestLimit
  /\ ledger = <<>>
  /\ job = [j \in Jobs |-> IdleJob]
  /\ runs = 0
  /\ lastRun = NoRun
  /\ env = FullEnv
  /\ QuietInit

\* the file handed to the k-th direct call
DirectImage(k, resp) == Sound(Img(k, resp))

\* performOCR(...) when generateText returned resp: a record, or the TypeError
PerformOCRReturns(resp) ==
  /\ Len(ocrOutcomes) < MaxOcrCalls
  /\ rendered = NoText
  /\ LET image == DirectImage(Len(ocrOutcomes) + 1, resp)
     IN ocrOutcomes' = Append(ocrOutcomes,
          [resp |-> resp,
           cause |-> IF performOCRThrows(image) THEN "type_error" ELSE "none",
           rec |-> performOCR(image)])
  /\ UNCHANGED <<thread, platformLimit, ledger, job, runs, lastRun, handlerVars,
                 rendered, logVars>>

\* performOCR(...) when generateText itself raised (network, auth)
PerformOCRTransportFails ==
  /\ Len(ocrOutcomes) < MaxOcrCalls
  /\ rendered = NoText
  /\ LET image == DirectImage(Len(ocrOutcomes) + 1, RespGarbage)
     IN ocrOutcomes' = Append(ocrOutcomes,
          [resp |-> RespGarbage, cause |-> "transport", rec |-> performOCR(image)])
  /\ UNCHANGED <<thread, platformLimit, ledger, job, runs, lastRun, handlerVars,
                 rendered, logVars>>

\* the records the direct calls returned, in call order
ReturnedRecords ==
  LET kept == SelectSeq(ocrOutcomes, LAMBDA o : o.cause = "none")
  IN [k \in 1..Len(kept) |-> kept[k].rec]

\* formatOCRResultsForSlack(results) on the records returned so far
FormatResults ==
  /\ rendered = NoText
  /\ rendered' = formatOCRResultsForSlack(ReturnedRecords)
  /\ UNCHANGED <<thread, platformLimit, ledger, job, runs, lastRun, handlerVars,
                 ocrOutcomes, logVars>>

NextOcr ==
  \/ \E resp \in ModelTexts : PerformOCRReturns(resp)
  \/ PerformOCRTransportFails
  \/ FormatResults

SpecOcr == InitOcr /\ [][NextOcr]_vars

(* ------------------------------------------------------------------ *)
(* Properties                                                          *)
(* ------------------------------------------------------------------ *)

IdsOf(files) == {files[k].id : k \in 1..Len(files)}

\* the loop of invocation j is over
LoopDone(j) ==
  /\ job[j].pc \in {"markread", "markwrite", "compose", "publish", "failedmsg",
                    "catch", "done"}
  /\ job[j].i > 0
  /\ job[j].i = Len(imagesToProcess(j))

\* the invocation before this one was a non-force run that returned after
\* every image of the thread had succeeded in it
PreviousRunProcessedAll ==
  /\ lastRun.valid
  /\ ~lastRun.force
  /\ lastRun.outcome = "returned"
  /\ lastRun.nImages > 0
  /\ lastRun.processedCount = lastRun.nImages

\* C1 (idempotence): after a non-force run in which every image of the
\* thread succeeded, a second non-force run on the same thread makes no
\* performOCR call and no ledger write, and when it returns its status
\* message is the "already processed" text, processedCount = 0 and
\* skippedCount = |S|.
C1_Idempotence ==
  \A j \in Jobs :
    (PreviousRunProcessedAll /\ job[j].pc # "idle" /\ ~job[j].force) =>
      /\ job[j].nOcr = 0
      /\ job[j].nMarkCalls = 0
      /\ job[j].nLedgerWrites = 0
      /\ ledger = job[j].ledgerAtStart
      /\ job[j].outcome = "returned" =>
           /\ job[j].status = AlreadyProcessedText
           /\ job[j].processedCount = 0
           /\ job[j].skippedCount = Len(findImagesInThread(thread))
           /\ job[j].skippedCount = lastRun.nImages

C1_Witness ==
  \E j \in Jobs :
    /\ PreviousRunProcessedAll
    /\ lastRun.nImages = 3
    /\ ~job[j].force
    /\ job[j].outcome = "returned"
    /\ job[j].status = AlreadyProcessedText
    /\ job[j].skippedCount = 3

\* C2 (ledger monotonicity): over non-overlapping runs, force or not, with
\* any pattern of failures, every step leaves in the ledger all ids that
\* were in it, so the recorded set only grows.
C2_LedgerMonotonic ==
  [][Range(ledger) \subseteq Range(ledger') /\ Len(ledger') >= Len(ledger)]_vars

\* a second run has added ids to the ones a first, partial run recorded
C2_Witness ==
  \E j \in Jobs :
    /\ runs = 2
    /\ job[j].nLedgerWrites = 1
    /\ Len(job[j].ledgerAtStart) > 0
    /\ Len(ledger) > Len(job[j].ledgerAtStart)
    /\ Range(job[j].ledgerAtStart) \subseteq Range(ledger)

\* what the Messenger, the thread read and the ledger raise
CollaboratorErrors ==
  {"post_failed", "replies_failed", "update_failed", "msg_too_long",
   "ledger_read_failed", "ledger_write_failed"}

\* C3 (per-item isolation): when exactly one of the N items of a run gives
\* no result, the loop still handles every item; the N-1 others are the
\* results, the ledger write carries exactly their ids, the failed item is
\* neither written nor rendered, a run that returns reports
\* processedCount = N-1, and a run raises only what a collaborator outside
\* the loop raised.
C3_PerItemIsolation ==
  \A j \in Jobs :
    LET n == Len(imagesToProcess(j))
        others == IdsOf(imagesToProcess(j)) \ job[j].failedIds
    IN
    /\ job[j].outcome = "raised" => job[j].error \in CollaboratorErrors
    /\ (LoopDone(j) /\ Cardinality(job[j].failedIds) = 1) =>
         /\ Len(job[j].results) = n - 1
         /\ Range(job[j].processedIds) = others
         /\ {job[j].results[k].fileId : k \in 1..(n - 1)} = others
         /\ job[j].nLedgerWrites = 1 =>
              Range(ledger) = Range(job[j].ledgerAtStart) \cup others
         /\ job[j].composed # NoText =>
              {job[j].composed[k].a : k \in
                 {m \in 1..Len(job[j].composed) :
                    job[j].composed[m].t \in {"text", "notext", "filename"}}} = others
         /\ job[j].outcome = "returned" => job[j].processedCount = n - 1

\* the second of three items failed, the third was still processed
C3_Witness ==
  \E j \in Jobs :
    /\ Len(imagesToProcess(j)) = 3
    /\ job[j].failedIds = {2}
    /\ job[j].outcome = "returned"
    /\ job[j].processedCount = 2
    /\ job[j].processedIds = <<1, 3>>
    /\ ledger = <<1, 3>>

\* the ids of the first MAX_IMAGES eligible images of invocation j
CappedIds(j) ==
  {job[j].unprocessedImages[k].id :
     k \in 1..Min(Len(job[j].unprocessedImages), MAX_IMAGES)}

\* C4 (cap enforcement): when more than MAX_IMAGES images are eligible, a
\* run never submits more than MAX_IMAGES; when all of them succeed it has
\* submitted exactly the first MAX_IMAGES, the ledger gains exactly their
\* ids, and the composed message ends with the note that names the number
\* left over (eligible minus MAX_IMAGES).
C4_CapEnforcement ==
  \A j \in Jobs :
    Len(job[j].unprocessedImages) > MAX_IMAGES =>
      /\ job[j].nOcr <= MAX_IMAGES
      /\ job[j].i <= MAX_IMAGES
      /\ (LoopDone(j) /\ job[j].failedIds = {}) =>
           /\ job[j].nOcr = MAX_IMAGES
           /\ job[j].processedIds =
                [k \in 1..MAX_IMAGES |-> job[j].unprocessedImages[k].id]
           /\ job[j].nLedgerWrites = 1 =>
                /\ Range(ledger) = Range(job[j].ledgerAtStart) \cup CappedIds(j)
                /\ ~job[j].force =>
                     Len(ledger) = Len(job[j].ledgerAtStart) + MAX_IMAGES
           /\ job[j].composed # NoText =>
                LET note == job[j].composed[Len(job[j].composed)]
                IN /\ note.t = "capnote"
                   /\ note.whole
                   /\ note.a = Len(job[j].unprocessedImages) - MAX_IMAGES

C4_Witness ==
  \E j \in Jobs :
    /\ Len(job[j].unprocessedImages) = BigThreadSize
    /\ job[j].outcome = "returned"
    /\ job[j].nOcr = MAX_IMAGES
    /\ job[j].processedCount = MAX_IMAGES
    /\ Len(ledger) = MAX_IMAGES
    /\ job[j].composed[Len(job[j].composed)].t = "capnote"
    /\ job[j].composed[Len(job[j].composed)].a = BigThreadSize - MAX_IMAGES

\* invocation j has a result body: it is about to publish it or has tried to
HasResultBody(j) == job[j].pc = "publish" \/ job[j].attempts > 0

\* C5 (size adaptation): every result body handed to the Messenger update
\* is at most SLACK_MAX_TEXT_LENGTH long; a composed body longer than that
\* is never handed over unmodified: it is a cut prefix plus the truncation
\* notice, together within the limit.
C5_SizeAdaptation ==
  \A j \in Jobs :
    HasResultBody(j) =>
      /\ TextLen(job[j].response) <= SLACK_MAX_TEXT_LENGTH
      /\ TextLen(job[j].composed) > SLACK_MAX_TEXT_LENGTH =>
           /\ job[j].response # job[j].composed
           /\ job[j].response[Len(job[j].response)].t = "notice"
      /\ (job[j].outcome = "returned" /\ job[j].attempts > 0) =>
           job[j].status = job[j].response

\* a body of twice the limit was published cut to exactly the limit
C5_Witness ==
  \E j \in Jobs :
    /\ TextLen(job[j].composed) = 2 * SLACK_MAX_TEXT_LENGTH
    /\ job[j].outcome = "returned"
    /\ job[j].attempts = 1
    /\ TextLen(job[j].status) = SLACK_MAX_TEXT_LENGTH
    /\ job[j].status[Len(job[j].status)].t = "notice"

\* p is s cut somewhere: whole pieces of s, then possibly a cut one
IsCutOf(p, s) ==
  /\ Len(p) <= Len(s)
  /\ \A k \in 1..Len(p) :
       \/ p[k] = s[k]
       \/ /\ k = Len(p)
          /\ p[k].t = s[k].t /\ p[k].a = s[k].a
          /\ p[k].n < s[k].n /\ ~p[k].whole

\* C6 (no silent drop): whenever the result body of a run differs from the
\* full rendered body (after the local truncation, after any number of
\* halvings), it is a cut of the rendered body followed by exactly one
\* truncation notice, which is its end.
C6_NoSilentDrop ==
  \A j \in Jobs :
    (HasResultBody(j) /\ job[j].response # job[j].composed) =>
      LET r == job[j].response
      IN /\ Len(r) >= 1
         /\ r[Len(r)] = truncationNotice[1]
         /\ Cardinality({k \in 1..Len(r) : r[k].t = "notice"}) = 1
         /\ IsCutOf(SubSeq(r, 1, Len(r) - 1), job[j].composed)
         /\ TextLen(r) < TextLen(job[j].composed)

\* a body was published after the local truncation and several halvings
C6_Witness ==
  \E j \in Jobs :
    /\ job[j].outcome = "returned"
    /\ job[j].attempts >= 4
    /\ TextLen(job[j].composed) > SLACK_MAX_TEXT_LENGTH
    /\ job[j].status = job[j].response
    /\ job[j].status # job[j].composed
    /\ job[j].status[Len(job[j].status)].t = "notice"

\* C7 (force bypass): a force run makes no getProcessedFileIds call and
\* keeps every image of the thread eligible; when no item fails it submits
\* min(|thread images|, MAX_IMAGES) images to performOCR, also when the
\* ledger already lists them all.
C7_ForceBypass ==
  \A j \in Jobs :
    job[j].force =>
      /\ job[j].nGetProcessed = 0
      /\ job[j].processedFileIds = <<>>
      /\ job[j].unprocessedImages = job[j].allImages
      /\ (LoopDone(j) /\ job[j].failedIds = {}) =>
           /\ job[j].nOcr = Min(Len(job[j].allImages), MAX_IMAGES)
           /\ Range(job[j].processedIds) = CappedIds(j)

\* a force run on a fully processed thread of 3 images made 3 performOCR calls
C7_Witness ==
  \E j \in Jobs :
    /\ job[j].force
    /\ Len(job[j].allImages) = 3
    /\ IdsOf(job[j].allImages) \subseteq Range(job[j].ledgerAtStart)
    /\ job[j].pc = "done"
    /\ job[j].outcome = "returned"
    /\ job[j].nOcr = 3
    /\ job[j].processedCount = 3

\* C8 (idempotent union): the ledger never holds an id twice; a ledger write
\* leaves exactly the union of what was recorded and the ids written, and
\* a write of ids that were all recorded leaves the ledger as it was.
C8_LedgerWriteIsUnion ==
  /\ Cardinality(Range(ledger)) = Len(ledger)
  /\ \A j \in Jobs :
       job[j].nLedgerWrites = 1 =>
         /\ Range(ledger) =
              Range(job[j].ledgerAtStart) \cup Range(job[j].processedIds)
         /\ Range(job[j].processedIds) \subseteq Range(job[j].ledgerAtStart) =>
              ledger = job[j].ledgerAtStart

\* the ledger of a fully processed 3-item thread after a force rerun wrote 3 ids
C8_Witness ==
  \E j \in Jobs :
    /\ job[j].force
    /\ job[j].nLedgerWrites = 1
    /\ Len(job[j].processedIds) = 3
    /\ Len(job[j].ledgerAtStart) = 3
    /\ Len(ledger) = 3
    /\ ledger = job[j].ledgerAtStart

\* no file of the thread is an image
NoImageInThread ==
  \A k \in 1..Len(thread) :
    \A m \in 1..Len(thread[k].files) : ~thread[k].files[m].isImage

\* C9 (empty thread): on a thread without image attachments a run reads no
\* ledger, writes no ledger, calls no performOCR; when it returns, the
\* status message is the "no images found" text and both counts are 0.
C9_EmptyThread ==
  NoImageInThread =>
    /\ ledger = <<>>
    /\ \A j \in Jobs :
         /\ job[j].nGetProcessed = 0
         /\ job[j].nMarkCalls = 0
         /\ job[j].nLedgerWrites = 0
         /\ job[j].nOcr = 0
         /\ job[j].outcome = "returned" =>
              /\ job[j].status = NoImagesText
              /\ job[j].processedCount = 0
              /\ job[j].skippedCount = 0

\* a thread whose only file is not an image: the run returned "no images found"
C9_Witness ==
  \E j \in Jobs :
    /\ NoImageInThread
    /\ \E k \in 1..Len(thread) : Len(thread[k].files) > 0
    /\ job[j].outcome = "returned"
    /\ job[j].status = NoImagesText

\* the text is a "Processing..." placeholder, count or progress text
IsProcessingText(text) ==
  /\ Len(text) > 0
  /\ text[1].t \in {"placeholder", "count", "progress"}

\* the text is one of the terminal texts: no images, already processed,
\* failed to process, error summary, or a result body
IsTerminalText(text) ==
  /\ Len(text) > 0
  /\ text[1].t \in {"noimages", "already", "failed", "error",
                    "filename", "text", "notext", "trlabel"}

\* C10 as stated (terminal status): however an invocation that posted its
\* placeholder finishes, the status message holds a terminal text.
C10_AlwaysTerminal ==
  \A j \in Jobs :
    (job[j].pc = "done" /\ job[j].hasStatus) => IsTerminalText(job[j].status)

\* C10 as amended: when an invocation that posted its placeholder has
\* finished, the status message holds a terminal text exactly when the
\* invocation returned or the catch block's error update succeeded (then
\* it is the error summary); when that update failed too, the message keeps
\* the placeholder, count or progress text it had.
C10_TerminalUnlessErrorUpdateFails ==
  \A j \in Jobs :
    (job[j].pc = "done" /\ job[j].hasStatus) =>
      /\ IsTerminalText(job[j].status) <=>
           (job[j].outcome = "returned" \/ job[j].errorUpdate = "ok")
      /\ IsTerminalText(job[j].status) \/ IsProcessingText(job[j].status)
      /\ job[j].errorUpdate = "ok" => job[j].status = ErrorText(job[j].error)
      /\ job[j].outcome = "returned" => job[j].status[1].t # "error"

\* a run raised after its progress update and its error update both failed
C10_Witness ==
  \E j \in Jobs :
    /\ job[j].pc = "done"
    /\ job[j].hasStatus
    /\ job[j].outcome = "raised"
    /\ job[j].errorUpdate = "failed"
    /\ job[j].status[1].t = "progress"

\* where a text stands in the order placeholder, count, progress 1..n, terminal
StatusRank(text) ==
  IF text = NoText THEN 0
  ELSE IF text[1].t = "placeholder" THEN 1
  ELSE IF text[1].t = "count" THEN 2
  ELSE IF text[1].t = "progress" THEN 2 + text[1].a
  ELSE 3 + MAX_IMAGES

\* C11 (status ordering): within one invocation the first text of the status
\* message is the placeholder, every later applied text stands after the
\* one it replaces in the order placeholder, count, progress 1, 2, ...,
\* terminal text, and once a terminal text is applied the invocation issues
\* no further post or update.
C11_StatusOrdering ==
  [][\A j \in Jobs :
       job'[j].pc # "idle" =>
         /\ job'[j].status # job[j].status =>
              /\ StatusRank(job[j].status) < StatusRank(job'[j].status)
              /\ job[j].status = NoText => job'[j].status = PlaceholderText
              /\ IsProcessingText(job'[j].status) \/ IsTerminalText(job'[j].status)
         /\ IsTerminalText(job[j].status) =>
              /\ job'[j].nPosts = job[j].nPosts
              /\ job'[j].nUpdateCalls = job[j].nUpdateCalls
              /\ job'[j].status = job[j].status]_vars

\* a run over three images returned: count, three progress texts and the
\* result were applied, the result by the last call issued
C11_Witness ==
  \E j \in Jobs :
    /\ job[j].outcome = "returned"
    /\ job[j].i = 3
    /\ job[j].nUpdates = 5
    /\ job[j].nUpdateCalls = 5
    /\ job[j].appliedAt = 5
    /\ job[j].status = job[j].response

\* C12 (single status handle): an invocation issues exactly one
\* postMessageToThread call, the placeholder, and never a second one; every
\* updateMessage call it issues, before or after an error, is given the ts
\* that post returned, and no update is issued before the post has
\* returned one.
C12_SingleStatusHandle ==
  \A j \in Jobs :
    /\ job[j].nPosts <= 1
    /\ job[j].pc \notin {"idle", "post"} => job[j].nPosts = 1
    /\ job[j].hasStatus =>
         /\ job[j].nPosts = 1
         /\ job[j].statusMessageTs # 0
         /\ job[j].targets \subseteq {job[j].statusMessageTs}
    /\ ~job[j].hasStatus =>
         /\ job[j].nUpdateCalls = 0
         /\ job[j].targets = {}
         /\ job[j].status = NoText

\* the second invocation raised after its thread read failed: one post, and
\* the error update went to the message that post created
C12_Witness ==
  \E j \in Jobs :
    /\ job[j].pc = "done"
    /\ job[j].outcome = "raised"
    /\ job[j].error = "replies_failed"
    /\ job[j].nPosts = 1
    /\ job[j].statusMessageTs = 2
    /\ job[j].nUpdateCalls = 1
    /\ job[j].targets = {2}

\* C13 (error path): an invocation whose step after the placeholder post
\* raised E has, when it ends, attempted exactly one update with the error
\* summary of E and thrown E itself, also when that update failed; an
\* invocation that returned attempted no error update and threw nothing.
C13_ErrorPath ==
  \A j \in Jobs :
    /\ (job[j].pc = "done" /\ job[j].outcome = "raised" /\ job[j].hasStatus) =>
         /\ job[j].error \in CollaboratorErrors \ {"post_failed"}
         /\ job[j].nErrorUpdates = 1
         /\ job[j].errorUpdate \in {"ok", "failed"}
         /\ job[j].thrown = job[j].error
         /\ job[j].errorUpdate = "ok" => job[j].status = ErrorText(job[j].error)
         /\ job[j].errorUpdate = "failed" => job[j].status[1].t # "error"
    /\ job[j].pc = "catch" => (job[j].nErrorUpdates = 0 /\ job[j].error # "none")
    /\ job[j].outcome = "returned" =>
         (job[j].nErrorUpdates = 0 /\ job[j].thrown = "none")

\* the ledger write failed, the error update failed too, and the caller
\* received the ledger's error
C13_Witness ==
  \E j \in Jobs :
    /\ job[j].pc = "done"
    /\ job[j].outcome = "raised"
    /\ job[j].error = "ledger_write_failed"
    /\ job[j].errorUpdate = "failed"
    /\ job[j].nErrorUpdates = 1
    /\ job[j].thrown = "ledger_write_failed"

\* the model's text is a JSON object with a non-empty extractedText
HasExtractedText(resp) ==
  resp.json /\ resp.fence \in {"none", "json"} /\ resp.val = "object" /\ resp.ext > 0

\* C14 as stated (extraction degrades instead of raising): every direct
\* call of performOCR in which the model call returned a text has returned
\* a record, and the record has noTextFound = TRUE whenever the text is
\* not a JSON object with a non-empty extractedText; only a failure of
\* the model call makes performOCR raise.
C14_ExtractionDegrades ==
  \A k \in 1..Len(ocrOutcomes) :
    LET o == ocrOutcomes[k]
    IN \/ o.cause = "transport"
       \/ /\ o.cause = "none"
          /\ o.rec.noTextFound <=> ~HasExtractedText(o.resp)

\* the positions of rendered that hold pieces of kind t
PiecesOfKind(t) == {k \in 1..Len(rendered) : rendered[k].t = t}

\* C16 (rendering of a translated record): in the rendered text, every
\* record with both a translation and an original text appears as the
\* English-translation label, the translated text, a divider, the label
\* naming the detected language, and the original text, in this order and
\* next to each other.
C16_TranslatedRecordRendering ==
  rendered # NoText =>
    \A r \in 1..Len(ReturnedRecords) :
      LET rec == ReturnedRecords[r]
      IN (rec.trLen > 0 /\ rec.origLen > 0) =>
           \E k \in 1..(Len(rendered) - 4) :
             /\ rendered[k] = Piece("trlabel", 23, rec.fileId)
             /\ rendered[k + 1] = Piece("text", rec.trLen, rec.fileId)
             /\ rendered[k + 2] = Divider[1]
             /\ rendered[k + 3] = Piece("origlabel", 11 + rec.langLen + 4, rec.fileId)
             /\ rendered[k + 4] = Piece("original", rec.origLen, rec.fileId)
             /\ \A m \in PiecesOfKind("trlabel") \cup PiecesOfKind("original") :
                  rendered[m].a = rec.fileId => m \in {k, k + 4}

\* a translated record was rendered after an English one
C16_Witness ==
  /\ Len(ReturnedRecords) = 2
  /\ ReturnedRecords[1].trLen = 0
  /\ ReturnedRecords[2].trLen = 11
  /\ ReturnedRecords[2].origLen = 9
  /\ rendered # NoText
  /\ rendered[Len(rendered)] = Piece("original", 9, 2)

\* C17 (rendering of several records): the rendering of two or more
\* records starts with a file name header, has one header per record,
\* the r-th header naming the r-th record's file; every header but the
\* first directly follows a divider, and the pieces from a header to the
\* next belong to that header's record.
C17_SeveralRecordsRendering ==
  (rendered # NoText /\ Len(ReturnedRecords) >= 2) =>
    LET heads == PiecesOfKind("filename")
        nth(r) == CHOOSE k \in heads : Cardinality({m \in heads : m <= k}) = r
        owner(k) == Cardinality({m \in heads : m <= k})
    IN /\ Cardinality(heads) = Len(ReturnedRecords)
       /\ 1 \in heads
       /\ \A r \in 1..Len(ReturnedRecords) :
            /\ rendered[nth(r)].a = ReturnedRecords[r].fileId
            /\ rendered[nth(r)].n = ReturnedRecords[r].nameLen + 4
            /\ r > 1 => rendered[nth(r) - 1] = Divider[1]
       /\ \A k \in 1..Len(rendered) :
            \/ rendered[k].a = ReturnedRecords[owner(k)].fileId
            \/ rendered[k] = Divider[1]
       /\ \A k \in 1..(Len(rendered) - 1) :
            (rendered[k] = Divider[1] /\ rendered[k + 1].t # "origlabel") =>
              (k + 1) \in heads

\* two records, a degraded one and an English one, were rendered
C17_Witness ==
  /\ Len(ReturnedRecords) = 2
  /\ ReturnedRecords[1].noTextFound
  /\ ~ReturnedRecords[2].noTextFound
  /\ Len(rendered) = 5
  /\ rendered[3] = Divider[1]
  /\ rendered[4].t = "filename"
  /\ rendered[4].a = 2

\* C18 as stated (rendering of a single record): the rendering of one
\* English record is a header naming its file followed by the extracted
\* text, whole, and holds no English-translation label.
C18_SingleRecordHasHeader ==
  (rendered # NoText /\ Len(ReturnedRecords) = 1
     /\ ~ReturnedRecords[1].noTextFound /\ ReturnedRecords[1].origLen = 0) =>
    /\ PiecesOfKind("trlabel") = {}
    /\ Len(rendered) = 2
    /\ rendered[1].t = "filename"
    /\ rendered[1].a = ReturnedRecords[1].fileId
    /\ rendered[2] = Piece("text", ReturnedRecords[1].textLen, ReturnedRecords[1].fileId)

\* the request is one the handler processes when everything is configured:
\* a correctly signed app_mention, or direct message that mentions the bot
AsksForProcessing(req) ==
  /\ req.method = "POST"
  /\ req.sig = "valid"
  /\ req.jsonOk
  /\ req.ptype = "event_callback"
  /\ \/ req.etype = "app_mention"
     \/ req.etype = "message" /\ req.im /\ ~req.botId /\ req.mentions

\* the Messenger, Ledger and Extractor calls invocation j has made
JobCalls(j) ==
  job[j].nPosts + job[j].nUpdateCalls + job[j].nGetProcessed
    + job[j].nMarkCalls + job[j].nOcr

\* C15 as stated (configuration gate): when one of the three credentials
\* is absent, a request that asks for processing is answered with a 5xx
\* status, processThread is not called for it, and no Messenger, Ledger
\* or Extractor call is made.
C15_ConfigurationGate ==
  (env # FullEnv /\ http.n > 0 /\ AsksForProcessing(http.req) /\ ~http.duplicate) =>
    /\ http.status >= 500
    /\ ~http.started
    /\ http.authTests = 0
    /\ \A j \in Jobs : JobCalls(j) = 0

\* C19 as stated (ledger under overlap): also when invocations overlap,
\* every step leaves in the ledger all the ids that were in it.
C19_LedgerGrowsUnderOverlap ==
  [][\A id \in Range(ledger) : id \in Range(ledger')]_vars

\* the ids whose results invocation j has published
PublishedIds(j) ==
  IF job[j].outcome = "returned" /\ job[j].attempts > 0
  THEN {job[j].status[k].a :
          k \in {m \in 1..Len(job[j].status) :
                   job[j].status[m].t \in {"text", "notext"}}}
  ELSE {}

\* C20 as stated (deduplication under overlap): no image is handed to
\* performOCR by two non-force invocations, and no image's result is
\* published by two of them.
C20_DedupUnderOverlap ==
  \A j, k \in Jobs :
    (j # k /\ ~job[j].force /\ ~job[k].force) =>
      /\ job[j].ocrIds \cap job[k].ocrIds = {}
      /\ PublishedIds(j) \cap PublishedIds(k) = {}

\* C21 as stated (no silent data loss): when a run has ended, every id it
\* added to the ledger belongs to an image whose result its published
\* message shows; a run whose final publish failed has added none.
C21_NoSilentDataLoss ==
  \A j \in Jobs :
    job[j].pc = "done" =>
      \A id \in Range(ledger) \ Range(job[j].ledgerAtStart) : id \in PublishedIds(j)

\* C22 as stated (cap annotation): whenever the cap cut the eligible set
\* and a result body was published, the published message holds the whole
\* "more images remain unprocessed" note, also after truncation or halving.
C22_CapNotePublished ==
  \A j \in Jobs :
    (limitReached(j) /\ job[j].outcome = "returned" /\ job[j].attempts > 0) =>
      \E k \in 1..Len(job[j].status) :
        job[j].status[k] = CapNote(Len(job[j].unprocessedImages) - MAX_IMAGES)[1]

\* C23 (halving step): a final update that is retried was rejected as too
\* long with a body of more than 500 characters, and the next body is the
\* first floor(len/2) characters of that body followed by the truncation
\* notice; a final update that raises "too long" out of the loop had a body
\* of 500 characters or fewer, and no further attempt is made with it.
C23_HalvingStep ==
  [][\A j \in Jobs :
       (job[j].pc = "publish" /\ job'[j].attempts = job[j].attempts + 1) =>
         LET old == job[j].response
             new == job'[j].response
             half == TextLen(old) \div 2
         IN /\ job'[j].pc = "publish" =>
                 /\ TextLen(old) > platformLimit
                 /\ TextLen(old) > MinRetryLen
                 /\ new[Len(new)] = truncationNotice[1]
                 /\ IsCutOf(SubSeq(new, 1, Len(new) - 1), old)
                 /\ TextLen(SubSeq(new, 1, Len(new) - 1)) = half
                 /\ TextLen(new) = half + TruncationNoticeLen
            /\ (job'[j].pc = "catch" /\ job'[j].error = "msg_too_long") =>
                 /\ TextLen(old) > platformLimit
                 /\ TextLen(old) <= MinRetryLen
                 /\ new = old]_vars

\* a body of 501 characters was halved once to 250 characters plus the
\* notice; these 324 were rejected too and the error left the loop
C23_Witness ==
  \E j \in Jobs :
    /\ TextLen(job[j].composed) = MinRetryLen + 1
    /\ job[j].attempts = 2
    /\ TextLen(job[j].response) = 250 + TruncationNoticeLen
    /\ job[j].pc = "done"
    /\ job[j].thrown = "msg_too_long"

\* C24 (retry termination): whatever limit the platform enforces, every
\* retry of the final update carries a strictly shorter body than the
\* attempt before it, and an invocation that entered the publish loop
\* leaves it: the update succeeds and the run returns, or an error
\* ("too long" at the floor, or another failure) is propagated.
C24_RetryTerminates ==
  /\ [][\A j \in Jobs :
          (job[j].pc = "publish" /\ job'[j].pc = "publish") =>
            /\ TextLen(job'[j].response) < TextLen(job[j].response)
            /\ job'[j].attempts = job[j].attempts + 1]_vars
  /\ \A j \in Jobs :
       (job[j].pc = "publish") ~>
         (/\ job[j].pc = "done"
          /\ job[j].attempts > 0
          /\ \/ job[j].outcome = "returned" /\ job[j].status = job[j].response
             \/ job[j].thrown \in {"msg_too_long", "update_failed"})

\* a platform that rejects every body of the run: after the local
\* truncation and seven halvings the eighth attempt's error was propagated
C24_Witness ==
  \E j \in Jobs :
    /\ platformLimit < TruncationNoticeLen + 2 * TruncationNoticeLen
    /\ TextLen(job[j].composed) > SLACK_MAX_TEXT_LENGTH
    /\ job[j].attempts = 8
    /\ job[j].pc = "done"
    /\ job[j].thrown = "msg_too_long"
    /\ TextLen(job[j].response) <= MinRetryLen

\* C25 (only "too long" is retried): the publish loop retries after no
\* error but "too long"; a final update that fails otherwise takes the run
\* to the outer catch after that one attempt, with the body as it was.
C25_OnlyTooLongRetried ==
  [][\A j \in Jobs :
       /\ job'[j].retried \subseteq {"msg_too_long"}
       /\ (job[j].pc = "publish" /\ job'[j].error = "update_failed") =>
            /\ job'[j].pc = "catch"
            /\ job'[j].response = job[j].response
            /\ job'[j].retried = job[j].retried
            /\ job'[j].attempts = job[j].attempts + 1
            /\ job'[j].nUpdateCalls = job[j].nUpdateCalls + 1]_vars

\* after two halvings the third attempt failed for another reason: its
\* body, still above the floor, was not halved again
C25_Witness ==
  \E j \in Jobs :
    /\ job[j].attempts = 3
    /\ job[j].retried = {"msg_too_long"}
    /\ job[j].pc = "done"
    /\ job[j].thrown = "update_failed"
    /\ TextLen(job[j].response) > MinRetryLen
    /\ TextLen(job[j].response) > platformLimit

\* C26 (fatal first post): an invocation whose placeholder post failed has
\* ended by raising that error; it has read no thread, made no ledger
\* read or write, no performOCR call and no status update, the catch
\* block's included.
C26_FatalFirstPost ==
  \A j \in Jobs :
    (job[j].nPosts = 1 /\ ~job[j].hasStatus) =>
      /\ job[j].pc = "done"
      /\ job[j].outcome = "raised"
      /\ job[j].error = "post_failed"
      /\ job[j].thrown = "post_failed"
      /\ job[j].nReplies = 0
      /\ job[j].allImages = <<>>
      /\ job[j].nGetProcessed = 0
      /\ job[j].nMarkCalls = 0
      /\ job[j].nLedgerWrites = 0
      /\ ledger = job[j].ledgerAtStart
      /\ job[j].nOcr = 0
      /\ job[j].nUpdateCalls = 0
      /\ job[j].nErrorUpdates = 0
      /\ job[j].status = NoText

\* the post of a second run failed, on a thread the first run had recorded
C26_Witness ==
  \E j \in Jobs :
    /\ runs = 2
    /\ Len(ledger) > 0
    /\ job[j].pc = "done"
    /\ job[j].thrown = "post_failed"
    /\ job[j].nPosts = 1
    /\ job[j].nUpdateCalls = 0

\* C27 (total failure): when the loop of a run is over and no item gave a
\* result, whether by a download error, an extraction error or a missing
\* URL, the run calls no markFilesAsProcessed and writes no ledger record,
\* composes no result body, and issues the "failed to process any images"
\* update; when it returns, that text is the status and processedCount
\* is 0; it raises only if that update itself failed.
C27_TotalFailure ==
  \A j \in Jobs :
    (LoopDone(j) /\ Len(job[j].results) = 0) =>
      /\ job[j].failedIds = IdsOf(imagesToProcess(j))
      /\ job[j].processedIds = <<>>
      /\ job[j].nMarkCalls = 0
      /\ job[j].nLedgerWrites = 0
      /\ ledger = job[j].ledgerAtStart
      /\ job[j].attempts = 0
      /\ job[j].composed = NoText
      /\ job[j].pc \in {"failedmsg", "catch", "done"}
      /\ job[j].outcome = "returned" =>
           /\ job[j].status = FailedText
           /\ job[j].processedCount = 0
      /\ job[j].outcome = "raised" => job[j].error = "update_failed"

\* of two images one failed in performOCR and the other had no URL
C27_Witness ==
  \E j \in Jobs :
    /\ job[j].failedIds = {1, 2}
    /\ job[j].nOcr = 1
    /\ \E k \in 1..Len(job[j].allImages) : ~job[j].allImages[k].hasUrl
    /\ job[j].outcome = "returned"
    /\ job[j].status = FailedText
    /\ job[j].processedCount = 0
    /\ ledger = <<>>

\* the place of the file with this id among the eligible images of invocation j
PlaceOf(j, id) ==
  CHOOSE k \in 1..Len(job[j].unprocessedImages) : job[j].unprocessedImages[k].id = id

\* C28 (sequential items): a job has at most one performOCR call pending,
\* and it is the call for the item the loop is at; while item i+1 is at its
\* progress update, download or extraction, each of the i items before it
\* has given its result or failed, no later item has been handed to
\* performOCR, and the results stand in thread order.
C28_SequentialItems ==
  \A j \in Jobs :
    LET n == Len(imagesToProcess(j))
        current == imagesToProcess(j)[job[j].i + 1].id
    IN /\ Cardinality(job[j].inFlight) <= 1
       /\ job[j].inFlight # {} <=> job[j].pc = "ocrwait"
       /\ job[j].nOcr = Cardinality(job[j].ocrIds)
       /\ job[j].pc \in {"progress", "download", "ocr", "ocrwait"} =>
            /\ job[j].i < n
            /\ job[j].i = Len(job[j].results) + Cardinality(job[j].failedIds)
            /\ Range(job[j].processedIds) \cup job[j].failedIds =
                 {imagesToProcess(j)[k].id : k \in 1..job[j].i}
            /\ job[j].ocrIds \subseteq
                 {imagesToProcess(j)[k].id : k \in 1..(job[j].i + 1)}
            /\ job[j].pc = "ocrwait" => job[j].inFlight = {current}
            /\ job[j].pc # "ocrwait" => current \notin job[j].ocrIds
       /\ \A a, b \in 1..Len(job[j].processedIds) :
            a < b => PlaceOf(j, job[j].processedIds[a]) < PlaceOf(j, job[j].processedIds[b])
       /\ \A a \in 1..Len(job[j].results) :
            job[j].results[a].fileId = job[j].processedIds[a]

\* the call for the third image is pending after the first gave a result
\* and the second failed in performOCR
C28_Witness ==
  \E j \in Jobs :
    /\ job[j].pc = "ocrwait"
    /\ job[j].i = 2
    /\ job[j].inFlight = {3}
    /\ job[j].ocrIds = {1, 2, 3}
    /\ job[j].processedIds = <<1>>
    /\ job[j].failedIds = {2}

\* C29 as stated (progress meaning): whenever the status message shows
\* "image i of N", at least i items of the run have finished, with a result
\* or a failure.
C29_ProgressCountsCompleted ==
  \A j \in Jobs :
    (job[j].status # NoText /\ job[j].status[1].t = "progress") =>
      job[j].status[1].a <= Len(job[j].results) + Cardinality(job[j].failedIds)

\* invocation j returned from the result branch
ReturnedResult(j) == job[j].outcome = "returned" /\ job[j].attempts > 0

IsDirectMessage(req) ==
  /\ req.method = "POST"
  /\ req.sig = "valid"
  /\ req.jsonOk
  /\ req.ptype = "event_callback"
  /\ req.etype = "message"
  /\ req.im

\* C33 (loop prevention in DMs): a direct message event that carries
\* bot_id, or whose text does not mention the bot, never starts a job; one
\* with bot_id is answered 200 before any lookup, one without a mention is
\* answered 200 once the lookup of the bot's user id has answered (the
\* handler raises only when that lookup does).
C33_DmLoopPrevention ==
  (/\ http.n > 0
   /\ env.signingSecret
   /\ IsDirectMessage(http.req)
   /\ http.req.botId \/ ~http.req.mentions) =>
    /\ ~http.started
    /\ \A j \in Jobs : job[j].pc = "idle"
    /\ http.req.botId =>
         (http.status = 200 /\ http.sent = 1 /\ ~http.threw /\ http.authTests = 0)
    /\ ~http.threw => (http.status = 200 /\ http.sent = 1)
    /\ http.threw =>
         (~http.duplicate /\ (~env.botToken \/ http.authTests = 1))

\* after a job had run for a mention, a message of a bot that mentions
\* the bot was answered 200 with no lookup and no job
C33_Witness ==
  /\ http.n = 2
  /\ runs = 1
  /\ lastRun.valid
  /\ IsDirectMessage(http.req)
  /\ http.req.botId
  /\ http.req.mentions
  /\ ~http.duplicate
  /\ http.status = 200
  /\ ~http.started

\* C32 (immediate acknowledgment): a request for which the handler starts
\* processThread is answered with one 200 response at the delivery, when
\* processThread has not got beyond its first await; nothing the job does
\* afterwards, raising included, changes the answer or makes the handler
\* raise.  Every correctly signed fresh app_mention is such a request, and
\* so is every fresh DM that mentions the bot once the lookup of the bot's
\* user id has answered.
C32_ImmediateAcknowledgment ==
  [][/\ (http'.n = http.n + 1 /\ http'.started) =>
          /\ http'.status = 200
          /\ http'.sent = 1
          /\ ~http'.threw
          /\ job'[1].pc \in {"post", "done"}
          /\ job'[1].nPosts = 0
          /\ job'[1].pc = "done" => job'[1].thrown = "no_token"
     /\ (http'.n = http.n + 1 /\ env.signingSecret /\ AsksForProcessing(http'.req)
           /\ ~http'.duplicate
           /\ (http'.req.etype = "app_mention" \/ ~http'.threw)) =>
          http'.started
     /\ http'.n = http.n => http' = http
     /\ \A j \in Jobs :
          (http'.started /\ job'[j].outcome = "raised") =>
            (http'.status = 200 /\ http'.sent = 1 /\ ~http'.threw)]_vars

\* the job started for a DM that mentions the bot raised after its thread
\* read failed; the answer to the request is still the 200
C32_Witness ==
  /\ http.started
  /\ http.req.etype = "message"
  /\ http.status = 200
  /\ http.sent = 1
  /\ job[1].pc = "done"
  /\ job[1].thrown = "replies_failed"

\* the ids of the "no text found" records among the results of invocation j
NoTextIds(j) ==
  {job[j].results[k].fileId :
     k \in {m \in 1..Len(job[j].results) : job[j].results[m].noTextFound}}

\* the image's extraction gives a "no text found" record: the model found
\* no text, or its output was not the JSON asked for
Degrades(image) == ~HasExtractedText(image.resp)

\* C34 (a degraded extraction counts as success): an item whose download
\* and extraction returned is a result and a processed id also when the
\* record says "no text found"; such a record is counted in
\* processedCount, composed as the no-text notice, written to the ledger
\* with the other ids, and a later non-force run that reads it there
\* neither keeps the image eligible nor hands it to performOCR.
C34_DegradedCountsAsSuccess ==
  \A j \in Jobs :
    /\ NoTextIds(j) \subseteq Range(job[j].processedIds)
    /\ \A k \in 1..job[j].i :
         LET image == imagesToProcess(j)[k]
         IN /\ (image.hasUrl /\ ~image.flaky) => image.id \in Range(job[j].processedIds)
            /\ (Degrades(image) /\ image.id \in Range(job[j].processedIds)) =>
                 image.id \in NoTextIds(j)
    /\ job[j].nLedgerWrites = 1 => NoTextIds(j) \subseteq Range(ledger)
    /\ job[j].composed # NoText =>
         \A id \in NoTextIds(j) :
           \E k \in 1..Len(job[j].composed) : job[j].composed[k] = Piece("notext", 25, id)
    /\ ReturnedResult(j) =>
         /\ job[j].processedCount = Len(job[j].results)
         /\ job[j].processedCount >= Cardinality(NoTextIds(j))
    /\ ~job[j].force =>
         \A k \in 1..Len(job[j].allImages) :
           LET image == job[j].allImages[k]
           IN (Degrades(image) /\ image.id \in Range(job[j].processedFileIds)) =>
                /\ image.id \notin IdsOf(job[j].unprocessedImages)
                /\ image.id \notin job[j].ocrIds

\* a run counted two images, one of them without text, and recorded both;
\* the next non-force run found nothing left to process
C34_Witness ==
  \E j \in Jobs :
    /\ thread = ThreadTwo
    /\ lastRun.valid
    /\ lastRun.processedCount = 2
    /\ ~job[j].force
    /\ job[j].processedFileIds = <<1, 2>>
    /\ Degrades(job[j].allImages[2])
    /\ job[j].unprocessedImages = <<>>
    /\ job[j].outcome = "returned"
    /\ job[j].status = AlreadyProcessedText

\* C31 (event deduplication): within one process the handler calls
\* processThread at most once for an event id, whatever the deliveries and
\* their order, also after the set of seen ids was pruned.
C31_StartedOncePerEvent ==
  \A k1, k2 \in 1..Len(startedFor) :
    startedFor[k1] = startedFor[k2] => k1 = k2

\* the images of the thread that invocation j left out because the ledger
\* it read listed them
ExcludedImages(j) ==
  {k \in 1..Len(job[j].allImages) :
     /\ job[j].allImages[k].id \in Range(job[j].processedFileIds)
     /\ job[j].allImages[k].id \notin IdsOf(job[j].unprocessedImages)}

\* C36 (meaning of skippedCount): a non-force run returns as skippedCount
\* the number of the thread's images it excluded because the ledger
\* listed them, which in the "already processed" branch is the number of
\* the thread's images; a force run returns 0.
C36_SkippedCountMeaning ==
  \A j \in Jobs :
    job[j].outcome = "returned" =>
      /\ job[j].force => job[j].skippedCount = 0
      /\ ~job[j].force => job[j].skippedCount = Cardinality(ExcludedImages(j))
      /\ job[j].status = AlreadyProcessedText =>
           job[j].skippedCount = Len(job[j].allImages)

\* the ids of the images invocation j has taken up in its loop so far:
\* those that gave a result, those that gave none, and the one in work
TakenUp(j) == Range(job[j].processedIds) \cup job[j].failedIds \cup job[j].ocrIds

\* invocation j went through its loop and returned
LoopCompleted(j) ==
  job[j].pc = "done" /\ job[j].outcome = "returned" /\ job[j].i > 0

\* C35 (eventual coverage): under repeated non-force runs on a thread that
\* does not change, every image of the thread is taken up for download
\* and extraction at least once after finitely many runs, also when the
\* thread has more than MAX_IMAGES images and some of them fail on every
\* attempt. The runs meant are runs that get through: as long as images
\* are left, a run that completes its loop and returns comes again and
\* again.
C35_EventualCoverage ==
  \A id \in 1..BigThreadSize :
    (/\ id \in IdsOf(findImagesInThread(thread))
     /\ []<>(\E j \in Jobs : LoopCompleted(j))) =>
      <>(\E j \in Jobs : id \in TakenUp(j))

\* C37 (log sessions under overlap): the session that the logger.flush of
\* a task hands to the store holds every entry the task emitted since its
\* logger.start and no entry of another task, also when two tasks overlap
\* in the process.
C37_LogSessionPerJob ==
  \A j \in Jobs :
    flushed[j].done =>
      /\ flushed[j].session.entries[j] = flushed[j].emitted
      /\ \A k \in Jobs \ {j} : flushed[j].session.entries[k] = 0

====
